---- MODULE Spec2Model ----
(***************************************************************************)
(* Store-dc: the per-key lock registry (ext/base_handler.py), the service  *)
(* operations that use it (ext/balance_manager.py, ext/product_manager.py) *)
(* the two-tier cache (ext/cache_manager.py), the purchase transaction     *)
(* (ext/trx.py), the locks of AutoMod (cogs/automod.py) and the cooldown   *)
(* and rate limit of the command handler (utils/command_handler.py).       *)
(*                                                                         *)
(* Scheduling is one asyncio event loop: a coroutine runs until it awaits  *)
(* something that is not ready.  One clock unit is five seconds, so the    *)
(* default acquire_lock timeout of 10.0 s is two units.                    *)
(***************************************************************************)
EXTENDS Integers, Sequences, FiniteSets, TLC

VARIABLES now, locks, made, lockObj, pc, ckey, cref, cstart, ctimeout, fut, cop, conn, holds,
          misuse, rel, out, memory_cache, cache_table, cacheLock, last, latest, sent, inst,
          store, work, bcache, hist, applied, pstep, stock, trxlog, cooldown, rate, grants, gbret,
          cooldowns, clock, passed, verdict

lockVars == <<locks, made, lockObj, pc, ckey, cref, cstart, ctimeout, fut, cop, conn,
             holds, misuse, rel, out>>
cacheVars == <<memory_cache, cache_table, cacheLock, last, latest>>
balVars == <<store, work, bcache, hist, applied>>
purVars == <<pstep, stock, trxlog>>
cmdVars == <<cooldown, rate, grants, cooldowns, clock, passed, verdict>>
extVars == <<purVars, cmdVars, gbret>>
appVars == <<sent, inst, balVars, extVars>>
vars == <<now, lockVars, cacheVars, appVars>>

(***************************************************************************)
(* Bounds                                                                  *)
(***************************************************************************)
MaxTime == 2
MaxGen == 2
MaxBalance == 3
\* rows of the transactions table that are written
MaxLog == 2
\* seconds on the clock of the command handler
MaxClock == 5

(***************************************************************************)
(* Lock registry: domains                                                  *)
(***************************************************************************)
Coros == {"c1", "c2", "c3"}
\* AdminCog: the key of one admin command of one author, and the key of the
\* message that invoked it in the response registry
AdminKey == "admin_command_addproduct_1"
RespKey == "message_1"
\* AutoMod: the name under which its one configuration Lock is kept here
ConfigKey == "config_lock"
\* AutoMod: the entry of guild 1 in its mute_locks dictionary
MuteKey == "mute_1"
\* the keys of the service operations, for user 1, GrowID 1, product 1, stock 1
BalanceKeys == {"growid_1", "register_1", "balance_1", "balance_update_1"}
ProductKeys == {"product_create_1", "product_get_1", "products_getall", "stock_add_1",
                "stock_get_1", "stock_count_1", "stock_update_1", "world_info_get",
                "world_info_update"}
TrxKeys == {"purchase_1_1", "deposit_1", "withdrawal_1"}
Keys == BalanceKeys \cup ProductKeys \cup TrxKeys \cup {AdminKey, RespKey, ConfigKey, MuteKey}
\* the object whose registry holds key k
OwnerOf(k) ==
    CASE k \in BalanceKeys -> "BalanceManagerService"
      [] k \in ProductKeys -> "ProductManagerService"
      [] k \in TrxKeys -> "TransactionManager"
      [] k \in {ConfigKey, MuteKey} -> "AutoMod"
      [] OTHER -> "AdminCog"
SvcOps == {"get_growid", "update_balance", "get_product"}
\* every operation of the three services that takes a lock
MutatingOps == {"register_user", "update_balance", "create_product", "add_stock_item",
                "update_stock_status", "update_world_info", "process_purchase",
                "process_deposit", "process_withdrawal"}
ReadOps == {"get_growid", "get_balance", "get_product", "get_all_products",
            "get_available_stock", "get_stock_count", "get_world_info"}
AllOps == MutatingOps \cup ReadOps
Gens == 1..MaxGen
NoLock == 0
NoKey == "-"
LockTimeout == 2
ResponseTimeout == 1
\* an acquire() that is awaited without wait_for has no time limit
NoTimeout == -1
Timeouts == {1, LockTimeout}
\* the keys the clients of the registry contend for
ClientKeys == {"growid_1", "balance_update_1"}

NewLock == [locked |-> FALSE, waiters |-> <<>>]

\* the last release_lock call that found nothing to release: its key, and
\* whether the key has been obtained since
NoRel == [key |-> NoKey, got |-> "no"]
\* the record after a coroutine obtained key k in the way `how`
Obtained(k, how) == IF rel.key = k /\ rel.got = "no" THEN [rel EXCEPT !.got = how] ELSE rel

RECURSIVE SeqRemove(_, _)
SeqRemove(s, x) ==
    IF s = <<>> THEN <<>>
    ELSE IF Head(s) = x THEN Tail(s)
    ELSE <<Head(s)>> \o SeqRemove(Tail(s), x)

\* A Lock object is named by its key and by how many Locks were made for
\* that key before it; locks[k] is the one now registered under k.
Obj(k, g) == lockObj[k][g]

\* (mutant) the test forgets that the lock may be taken
CanAcquireNow_ignoresLocked(l) ==
    /\ \A i \in DOMAIN l.waiters : fut[l.waiters[i]] = "cancelled"

\* asyncio.Lock.acquire, the test of its first statement
CanAcquireNow(l) ==
    /\ ~l.locked
    /\ \A i \in DOMAIN l.waiters : fut[l.waiters[i]] = "cancelled"

\* (mutant) the waiter that arrived last is woken
WakeUpFirst_last(w, f) ==
    IF w = <<>> THEN f
    ELSE IF f[w[Len(w)]] = "pending" THEN [f EXCEPT ![w[Len(w)]] = "result"]
    ELSE f

\* asyncio.Lock._wake_up_first on a waiter queue w: the futures afterwards
WakeUpFirst(w, f) ==
    IF w = <<>> THEN f
    ELSE IF f[Head(w)] = "pending" THEN [f EXCEPT ![Head(w)] = "result"]
    ELSE f

\* (mutant) the timer is armed one unit late
Deadline_late(s, t) == s + t + 1

\* the time at which wait_for gives up on a call started at s with timeout t
Deadline(s, t) == s + t

\* the wait_for timer of c is due
TimerDue(c) == ctimeout[c] # NoTimeout /\ Deadline(cstart[c], ctimeout[c]) <= now

Idle(c) ==
    /\ pc[c] = "idle"

(***************************************************************************)
(* BaseLockHandler.acquire_lock                                            *)
(***************************************************************************)
\* the call: look the key up or create its Lock, start wait_for(acquire())
CallAcquire(c, k, t, op) ==
    /\ Idle(c)
    /\ IF locks[k] = NoLock
       THEN /\ made[k] + 1 \in Gens
            /\ made' = [made EXCEPT ![k] = @ + 1]
            /\ locks' = [locks EXCEPT ![k] = made[k] + 1]
            /\ lockObj' = [lockObj EXCEPT ![k][made[k] + 1] = NewLock]
            /\ cref' = [cref EXCEPT ![c] = made[k] + 1]
       ELSE /\ cref' = [cref EXCEPT ![c] = locks[k]]
            /\ UNCHANGED <<locks, made, lockObj>>
    /\ pc' = [pc EXCEPT ![c] = "calling"]
    /\ ckey' = [ckey EXCEPT ![c] = k]
    /\ cstart' = [cstart EXCEPT ![c] = now]
    /\ ctimeout' = [ctimeout EXCEPT ![c] = t]
    /\ cop' = [cop EXCEPT ![c] = op]
    /\ UNCHANGED <<now, fut, conn, holds, misuse, rel, out, cacheVars,
                   appVars>>

AcquireLock(c, k, t) == CallAcquire(c, k, t, "client")

\* asyncio.Lock.acquire runs: take the lock at once or queue a future
LockAcquire(c) ==
    /\ pc[c] = "calling"
    /\ LET k == ckey[c]
           g == cref[c]
       IN
       IF CanAcquireNow(Obj(k, g))
       THEN /\ lockObj' = [lockObj EXCEPT ![k][g].locked = TRUE]
            /\ pc' = [pc EXCEPT ![c] = "cs"]
            /\ holds' = [holds EXCEPT ![c] = ckey[c]]
            /\ cstart' = [cstart EXCEPT ![c] = 0]
            /\ ctimeout' = [ctimeout EXCEPT ![c] = 0]
            /\ rel' = Obtained(k, "at_once")
            /\ UNCHANGED fut
       ELSE /\ lockObj' = [lockObj EXCEPT ![k][g].waiters = Append(@, c)]
            /\ fut' = [fut EXCEPT ![c] = "pending"]
            /\ pc' = [pc EXCEPT ![c] = "waiting"]
            /\ UNCHANGED <<holds, cstart, ctimeout, rel>>
    /\ UNCHANGED <<now, locks, made, ckey, cref, cop, conn, misuse, out, cacheVars,
                   appVars>>

\* a woken waiter resumes after `await fut`: it leaves the queue and locks
LockResume(c) ==
    /\ pc[c] = "waiting"
    /\ fut[c] = "result"
    /\ lockObj' = [lockObj EXCEPT ![ckey[c]][cref[c]] =
                      [locked |-> TRUE, waiters |-> SeqRemove(@.waiters, c)]]
    /\ fut' = [fut EXCEPT ![c] = "none"]
    /\ pc' = [pc EXCEPT ![c] = "cs"]
    /\ holds' = [holds EXCEPT ![c] = ckey[c]]
    /\ cstart' = [cstart EXCEPT ![c] = 0]
    /\ ctimeout' = [ctimeout EXCEPT ![c] = 0]
    /\ rel' = Obtained(ckey[c], "after_wait")
    /\ UNCHANGED <<now, locks, made, ckey, cref, cop, conn, misuse, out, cacheVars,
                   appVars>>

\* the wait_for timer is due: the waiting acquire() is cancelled
TimerFire(c) ==
    /\ pc[c] = "waiting"
    /\ fut[c] \in {"pending", "result"}
    /\ TimerDue(c)
    /\ fut' = [fut EXCEPT ![c] = IF @ = "pending" THEN "cancelled" ELSE "result_cancel"]
    /\ UNCHANGED <<now, locks, made, lockObj, pc, ckey, cref, cstart, ctimeout, cop, conn, holds,
                   misuse, rel, out, cacheVars,
                   appVars>>

\* the cancelled acquire() runs its handlers; acquire_lock returns None
CancelResume(c) ==
    /\ pc[c] = "waiting"
    /\ fut[c] \in {"cancelled", "result_cancel"}
    /\ LET l == Obj(ckey[c], cref[c])
           w == SeqRemove(l.waiters, c)
           f == [fut EXCEPT ![c] = "none"]
       IN /\ lockObj' = [lockObj EXCEPT ![ckey[c]][cref[c]].waiters = w]
          /\ fut' = IF l.locked THEN f ELSE WakeUpFirst(w, f)
    /\ pc' = [pc EXCEPT ![c] = "failed"]
    /\ UNCHANGED <<now, locks, made, ckey, cref, cstart, ctimeout, cop, conn, holds, misuse, rel, out, cacheVars,
                   appVars>>

(***************************************************************************)
(* BaseLockHandler.release_lock                                            *)
(***************************************************************************)
\* the registry and futures after release_lock(k)
ReleaseEffect(k) ==
    IF locks[k] # NoLock /\ Obj(k, locks[k]).locked
    THEN /\ lockObj' = [lockObj EXCEPT ![k][locks[k]].locked = FALSE]
         /\ fut' = WakeUpFirst(Obj(k, locks[k]).waiters, fut)
    ELSE UNCHANGED <<lockObj, fut>>

\* a client that holds k leaves its section
ReleaseLock(c) ==
    /\ pc[c] = "cs"
    /\ cop[c] = "client"
    /\ ReleaseEffect(ckey[c])
    /\ pc' = [pc EXCEPT ![c] = "idle"]
    /\ holds' = [holds EXCEPT ![c] = NoKey]
    /\ ckey' = [ckey EXCEPT ![c] = NoKey]
    /\ cref' = [cref EXCEPT ![c] = NoLock]
    /\ cstart' = [cstart EXCEPT ![c] = 0]
    /\ ctimeout' = [ctimeout EXCEPT ![c] = 0]
    /\ cop' = [cop EXCEPT ![c] = "none"]
    /\ UNCHANGED <<now, locks, made, conn, misuse, rel, out, cacheVars,
                   appVars>>

\* release_lock(k) finds nothing to release: k is unknown or not locked
Unheld(k) == locks[k] = NoLock \/ ~Obj(k, locks[k]).locked

\* (mutant) release_lock forgets a key whose Lock it found unlocked
StrayRelease_dropsKey(c, k) ==
    /\ Idle(c)
    /\ ReleaseEffect(k)
    /\ locks' = [locks EXCEPT ![k] = IF Unheld(k) THEN NoLock ELSE @]
    /\ misuse' = TRUE
    /\ rel' = IF Unheld(k) THEN [key |-> k, got |-> "no"] ELSE rel
    /\ UNCHANGED <<now, made, pc, ckey, cref, cstart, ctimeout, cop, conn, holds, out,
                   cacheVars, appVars>>

\* release_lock(k) called by a coroutine that does not hold k
StrayRelease(c, k) ==
    /\ Idle(c)
    /\ ReleaseEffect(k)
    /\ misuse' = TRUE
    /\ rel' = IF Unheld(k) THEN [key |-> k, got |-> "no"] ELSE rel
    /\ UNCHANGED <<now, locks, made, pc, ckey, cref, cstart, ctimeout, cop, conn, holds, out,
                   cacheVars, appVars>>

\* the caller of acquire_lock got None and gives up
GiveUp(c) ==
    /\ pc[c] = "failed"
    /\ cop[c] = "client"
    /\ pc' = [pc EXCEPT ![c] = "idle"]
    /\ ckey' = [ckey EXCEPT ![c] = NoKey]
    /\ cref' = [cref EXCEPT ![c] = NoLock]
    /\ cstart' = [cstart EXCEPT ![c] = 0]
    /\ ctimeout' = [ctimeout EXCEPT ![c] = 0]
    /\ cop' = [cop EXCEPT ![c] = "none"]
    /\ UNCHANGED <<now, locks, made, lockObj, fut, conn, holds, misuse, rel, out, cacheVars,
                   appVars>>

(***************************************************************************)
(* Service operations: acquire_lock, try: ... finally: release_lock        *)
(***************************************************************************)
\* the lock key an operation asks for (one user, one product)
KeyOf(op) ==
    CASE op = "get_growid" -> "growid_1"
      [] op = "update_balance" -> "balance_update_1"
      [] op = "get_product" -> "product_get_1"
      [] op = "register_user" -> "register_1"
      [] op = "get_balance" -> "balance_1"
      [] op = "create_product" -> "product_create_1"
      [] op = "get_all_products" -> "products_getall"
      [] op = "add_stock_item" -> "stock_add_1"
      [] op = "get_available_stock" -> "stock_get_1"
      [] op = "get_stock_count" -> "stock_count_1"
      [] op = "update_stock_status" -> "stock_update_1"
      [] op = "get_world_info" -> "world_info_get"
      [] op = "update_world_info" -> "world_info_update"
      [] op = "process_purchase" -> "purchase_1_1"
      [] op = "process_deposit" -> "deposit_1"
      [] op = "process_withdrawal" -> "withdrawal_1"

\* the local variable conn when the try block is entered: the mutating
\* operations assign None before the try (process_deposit and
\* process_withdrawal have no connection of their own to close), the read
\* operations assign nothing
ConnInit(op) == IF op \in MutatingOps THEN "None" ELSE "unbound"

\* what an operation does when acquire_lock returned None
OnBusy(op) ==
    IF op \in MutatingOps \cup {"get_available_stock"} THEN "TransactionError"
    ELSE "empty"

\* `if conn:` in the finally block can be evaluated
ConnBound(cn) == cn # "unbound"

\* the operation starts (cache miss) and calls acquire_lock with the default
SvcStart(c, op) ==
    /\ CallAcquire(c, KeyOf(op), LockTimeout, op)

\* conn = get_connection(): it returns a connection or raises
SvcOpen(c) ==
    /\ pc[c] = "cs"
    /\ cop[c] \in AllOps
    /\ \E ok \in BOOLEAN :
          IF ok
          THEN /\ conn' = [conn EXCEPT ![c] = "open"]
               /\ pc' = [pc EXCEPT ![c] = "body"]
          ELSE /\ conn' = [conn EXCEPT ![c] = ConnInit(cop[c])]
               /\ pc' = [pc EXCEPT ![c] = "finally"]
    /\ UNCHANGED <<now, locks, made, lockObj, ckey, cref, cstart, ctimeout, fut, cop, holds,
                   misuse, rel, out, cacheVars,
                   appVars>>

\* the queries and cache calls of the try block: they finish or raise, and
\* either way control reaches the finally block
SvcBody(c) ==
    /\ pc[c] = "body"
    /\ pc' = [pc EXCEPT ![c] = "finally"]
    /\ UNCHANGED <<now, locks, made, lockObj, ckey, cref, cstart, ctimeout, fut, cop, conn,
                   holds, misuse, rel, out, cacheVars,
                   appVars>>

\* finally: if conn: conn.close(); self.release_lock(key)
SvcFinally(c) ==
    /\ pc[c] = "finally"
    /\ IF ConnBound(conn[c])
       THEN /\ conn' = [conn EXCEPT ![c] = IF @ = "open" THEN "closed" ELSE @]
            /\ ReleaseEffect(ckey[c])
            /\ holds' = [holds EXCEPT ![c] = NoKey]
       ELSE \* UnboundLocalError leaves the finally block before release_lock
            UNCHANGED <<conn, lockObj, fut, holds>>
    /\ pc' = [pc EXCEPT ![c] = "done"]
    /\ out' = [out EXCEPT ![c] = "finished"]
    /\ UNCHANGED <<now, locks, made, ckey, cref, cstart, ctimeout, cop, misuse, rel,
                   cacheVars, appVars>>

\* (mutant) the operation goes on without the lock
SvcBusy_proceeds(c) ==
    /\ pc[c] = "failed"
    /\ cop[c] \in AllOps
    /\ pc' = [pc EXCEPT ![c] = "cs"]
    /\ UNCHANGED <<now, locks, made, lockObj, ckey, cref, cstart, ctimeout, fut, cop, conn,
                   holds, misuse, rel, out, cacheVars, appVars>>

\* acquire_lock returned None: the operation returns or raises at once
SvcBusy(c) ==
    /\ pc[c] = "failed"
    /\ cop[c] \in AllOps
    /\ pc' = [pc EXCEPT ![c] = "done"]
    /\ out' = [out EXCEPT ![c] = OnBusy(cop[c])]
    /\ UNCHANGED <<now, locks, made, lockObj, ckey, cref, cstart, ctimeout, fut, cop, conn,
                   holds, misuse, rel, cacheVars, appVars>>

(***************************************************************************)
(* BalanceManagerService.update_balance, statement by statement            *)
(***************************************************************************)
InitialBalance == 1
\* no entry under a cache key of the command handler
NoEntry == [at |-> <<>>, exp |-> 0]
\* the change of balance a caller asks for
Deltas == {-2, 1}
NoBalance == -1
\* the UPDATE a connection has executed and not committed: none
NoWork == [delta |-> 0, new |-> NoBalance]

Max(a, b) == IF a >= b THEN a ELSE b

\* (mutant) no debit is refused
Insufficient_never(delta, balance) == FALSE

\* `abs(wl) > current['balance_wl']` for a negative wl
Insufficient(delta, balance) == delta < 0 /\ -delta > balance

\* (mutant) the body also runs when acquire_lock returned None
UbRead_noLock(c, delta, ok) ==
    /\ pc[c] \in {"cs", "failed"}
    /\ cop[c] = "update_balance"
    /\ store.balance + delta <= MaxBalance
    /\ (ok /\ store.exists /\ ~Insufficient(delta, store.balance)) => trxlog < MaxLog
    /\ IF ~ok
       THEN /\ conn' = [conn EXCEPT ![c] = "None"]
            /\ pc' = [pc EXCEPT ![c] = "ub_finally"]
            /\ out' = [out EXCEPT ![c] = "raised"]
            /\ UNCHANGED work
       ELSE IF ~store.exists \/ Insufficient(delta, store.balance)
       THEN /\ conn' = [conn EXCEPT ![c] = "open"]
            /\ pc' = [pc EXCEPT ![c] = "ub_finally"]
            /\ out' = [out EXCEPT ![c] = "raised"]
            /\ UNCHANGED work
       ELSE /\ conn' = [conn EXCEPT ![c] = "open"]
            /\ work' = [work EXCEPT ![c] =
                          [delta |-> delta, new |-> Max(0, store.balance + delta)]]
            /\ pc' = [pc EXCEPT ![c] = "ub_updated"]
            /\ UNCHANGED out
    /\ UNCHANGED <<now, locks, made, lockObj, ckey, cref, cstart, ctimeout, fut, cop, holds,
                   misuse, rel, cacheVars, sent, inst, store, bcache, hist, applied,
                   extVars>>

\* with the lock: get_connection(), the SELECT of the current balance, the
\* validation and the UPDATE.  The connection fails, or the user is unknown
\* or the funds are insufficient (TransactionError, rollback of nothing), or
\* the UPDATE is executed and waits for its commit
UbRead(c, delta, ok) ==
    /\ pc[c] = "cs"
    /\ cop[c] = "update_balance"
    /\ store.balance + delta <= MaxBalance
    /\ (ok /\ store.exists /\ ~Insufficient(delta, store.balance)) => trxlog < MaxLog
    /\ IF ~ok
       THEN /\ conn' = [conn EXCEPT ![c] = "None"]
            /\ pc' = [pc EXCEPT ![c] = "ub_finally"]
            /\ out' = [out EXCEPT ![c] = "raised"]
            /\ UNCHANGED work
       ELSE IF ~store.exists \/ Insufficient(delta, store.balance)
       THEN /\ conn' = [conn EXCEPT ![c] = "open"]
            /\ pc' = [pc EXCEPT ![c] = "ub_finally"]
            /\ out' = [out EXCEPT ![c] = "raised"]
            /\ UNCHANGED work
       ELSE /\ conn' = [conn EXCEPT ![c] = "open"]
            /\ work' = [work EXCEPT ![c] =
                          [delta |-> delta, new |-> Max(0, store.balance + delta)]]
            /\ pc' = [pc EXCEPT ![c] = "ub_updated"]
            /\ UNCHANGED out
    /\ UNCHANGED <<now, locks, made, lockObj, ckey, cref, cstart, ctimeout, fut, cop, holds,
                   misuse, rel, cacheVars, sent, inst, store, bcache, hist, applied,
                   extVars>>

\* (mutant) a failed INSERT or commit leaves the UPDATE in the store
UbCommit_noRollback(c, ok) ==
    /\ pc[c] = "ub_updated"
    /\ store' = [store EXCEPT !.balance = work[c].new]
    /\ IF ok
       THEN /\ applied' = applied + work[c].delta
            /\ trxlog' = trxlog + 1
            /\ pc' = [pc EXCEPT ![c] = "ub_committed"]
            /\ UNCHANGED <<work, out>>
       ELSE /\ work' = [work EXCEPT ![c] = NoWork]
            /\ pc' = [pc EXCEPT ![c] = "ub_finally"]
            /\ out' = [out EXCEPT ![c] = "raised"]
            /\ UNCHANGED <<applied, trxlog>>
    /\ UNCHANGED <<now, locks, made, lockObj, ckey, cref, cstart, ctimeout, fut, cop, conn,
                   holds, misuse, rel, cacheVars, sent, inst, bcache, hist,
                   pstep, stock, cmdVars, gbret>>

\* the INSERT into transactions and conn.commit(); when they fail the
\* handler calls conn.rollback() and raises
UbCommit(c, ok) ==
    /\ pc[c] = "ub_updated"
    /\ IF ok
       THEN /\ store' = [store EXCEPT !.balance = work[c].new]
            /\ applied' = applied + work[c].delta
            /\ trxlog' = trxlog + 1
            /\ pc' = [pc EXCEPT ![c] = "ub_committed"]
            /\ UNCHANGED <<work, out>>
       ELSE /\ work' = [work EXCEPT ![c] = NoWork]
            /\ pc' = [pc EXCEPT ![c] = "ub_finally"]
            /\ out' = [out EXCEPT ![c] = "raised"]
            /\ UNCHANGED <<store, applied, trxlog>>
    /\ UNCHANGED <<now, locks, made, lockObj, ckey, cref, cstart, ctimeout, fut, cop, conn,
                   holds, misuse, rel, cacheVars, sent, inst, bcache, hist,
                   pstep, stock, cmdVars, gbret>>

\* (mutant) update_balance leaves the cached balance as it is
UbCache_skipped(c) ==
    /\ pc[c] = "ub_committed"
    /\ pc' = [pc EXCEPT ![c] = "ub_cached"]
    /\ UNCHANGED <<now, locks, made, lockObj, ckey, cref, cstart, ctimeout, fut, cop, conn,
                   holds, misuse, rel, out, cacheVars, sent, inst, balVars, extVars>>

\* await cache_manager.set("balance_<growid>", new_balance, expires_in=30)
UbCache(c) ==
    /\ pc[c] = "ub_committed"
    /\ bcache' = work[c].new
    /\ pc' = [pc EXCEPT ![c] = "ub_cached"]
    /\ UNCHANGED <<now, locks, made, lockObj, ckey, cref, cstart, ctimeout, fut, cop, conn,
                   holds, misuse, rel, out, cacheVars, sent, inst, store, work, hist,
                   applied,
                   extVars>>

\* await cache_manager.delete("trx_history_<growid>"), then return new_balance
UbInvalidate(c) ==
    /\ pc[c] = "ub_cached"
    /\ hist' = FALSE
    /\ pc' = [pc EXCEPT ![c] = "ub_finally"]
    /\ out' = [out EXCEPT ![c] = "new_balance"]
    /\ UNCHANGED <<now, locks, made, lockObj, ckey, cref, cstart, ctimeout, fut, cop, conn,
                   holds, misuse, rel, cacheVars, sent, inst, store, work, bcache, applied,
                   extVars>>

\* finally: if conn: conn.close(); self.release_lock(key)
UbFinally(c) ==
    /\ pc[c] = "ub_finally"
    /\ conn' = [conn EXCEPT ![c] = IF @ = "open" THEN "closed" ELSE @]
    /\ ReleaseEffect(ckey[c])
    /\ holds' = [holds EXCEPT ![c] = NoKey]
    /\ work' = [work EXCEPT ![c] = NoWork]
    /\ pc' = [pc EXCEPT ![c] = "done"]
    /\ UNCHANGED <<now, locks, made, ckey, cref, cstart, ctimeout, cop, misuse, rel, out,
                   cacheVars, sent, inst, store, bcache, hist, applied,
                   extVars>>

(***************************************************************************)
(* AdvancedCommandHandler (utils/command_handler.py).  Its clock counts    *)
(* seconds.  check_cooldown and check_rate_limit await only the cache,     *)
(* which never suspends, so each call is one step.                         *)
(***************************************************************************)
\* the command that is asked for, listed in the configuration or not
Command == "buy"
\* the literal 3 of self.cooldowns.get(..., 3)
Fallback == 3
\* the 'cooldowns' mapping of _get_default_config
DefaultCooldowns == [k \in {"default", "admin"} |-> IF k = "default" THEN 3 ELSE 1]
\* the 'cooldowns' mappings of config.json: any of 'default' and the
\* command may be listed, with a cooldown of 2 or 4 seconds
Cooldowns == UNION {[D -> {2, 4}] : D \in SUBSET {"default", Command}}

\* cooldown_time = self.cooldowns.get(command, self.cooldowns.get('default', 3))
CooldownTime(cfg, command) ==
    IF command \in DOMAIN cfg THEN cfg[command]
    ELSE IF "default" \in DOMAIN cfg THEN cfg["default"]
    ELSE Fallback

\* expires_in = self.cooldowns.get(command, 3)
ExpiresInOf(cfg, command) == IF command \in DOMAIN cfg THEN cfg[command] ELSE Fallback

\* cache_manager.get of a memory-only entry: an expired entry is gone
Cached(e, t) == IF e # NoEntry /\ e.exp > t THEN e ELSE NoEntry

\* the last two times at which the handler answered True
Recent(g, t) == IF Len(g) = 2 THEN <<g[2], t>> ELSE Append(g, t)

\* check_cooldown(user, Command): the admin passes; anyone else is refused
\* while the cached time of the last use is younger than cooldown_time,
\* and otherwise passes and caches the present time
CheckCooldown(admin) ==
    /\ IF admin
       THEN UNCHANGED <<cooldown, grants>>
       ELSE LET last_used == Cached(cooldown, clock)
            IN IF last_used # NoEntry
                  /\ clock - last_used.at[1] < CooldownTime(cooldowns, Command)
               THEN UNCHANGED <<cooldown, grants>>
               ELSE /\ cooldown' = [at |-> <<clock>>,
                                    exp |-> clock + ExpiresInOf(cooldowns, Command)]
                    /\ grants' = Recent(grants, clock)
    /\ UNCHANGED <<now, lockVars, cacheVars, sent, inst, balVars, purVars, gbret, rate,
                   cooldowns, clock, passed, verdict>>

\* a second passes
CmdTick ==
    /\ clock < MaxClock
    /\ clock' = clock + 1
    /\ UNCHANGED <<now, lockVars, cacheVars, sent, inst, balVars, purVars, gbret, cooldown,
                   rate, grants, cooldowns, passed, verdict>>

\* the authors and channels of the commands
Users == {"u1", "u2"}
Channels == {"ch1"}
Scopes == <<"user", "channel", "global">>
\* the cache key of a scope for a command of user u in channel ch
RateKey(scope, u, ch) ==
    CASE scope = "user" -> u
      [] scope = "channel" -> ch
      [] OTHER -> "global"
RateKeys == Users \cup Channels \cup {"global"}
\* the 'rate_limits' of config.json used here, [limit, window] per scope
RateLimits == [user |-> <<2, 2>>, channel |-> <<3, 3>>, global |-> <<2, 3>>]
Limit(scope) == RateLimits[scope][1]
Window(scope) == RateLimits[scope][2]

\* the commands no older than the window, in their order
Kept(at, t, window) == SelectSeq(at, LAMBDA x : t - x <= window)

\* (mutant) one command more than the limit is let through
Full_offByOne(n, limit) == n > limit

\* len(rate_data['commands']) >= limit
Full(n, limit) == n >= limit

\* the first scope, in the order user, channel, global, that is full at
\* time t, or "none"
RECURSIVE Refusing(_, _, _, _)
Refusing(i, u, ch, t) ==
    IF i > Len(Scopes) THEN "none"
    ELSE LET scope == Scopes[i]
             data == Cached(rate[RateKey(scope, u, ch)], t)
         IN IF Full(Len(Kept(data.at, t, Window(scope))), Limit(scope))
            THEN scope
            ELSE Refusing(i + 1, u, ch, t)

\* the place of a scope in the order of the loop
Place(scope) == CHOOSE i \in DOMAIN Scopes : Scopes[i] = scope

\* the entry of a scope after the loop reached it: old commands are
\* dropped from the cached list; when the scope is not full the present
\* time is appended and the entry is set again for one window
RateAfter(scope, k, t, full) ==
    LET data == Cached(rate[k], t)
        kept == Kept(data.at, t, Window(scope))
    IN IF full THEN (IF data = NoEntry THEN NoEntry ELSE [data EXCEPT !.at = kept])
       ELSE [at |-> Append(kept, t), exp |-> t + Window(scope)]

\* the last limit + 1 times at which a call of the scope was answered True
Passed(g, scope, t) ==
    IF Len(g) = Limit(scope) + 1 THEN Append(Tail(g), t) ELSE Append(g, t)

\* check_rate_limit for a command of user u in channel ch: the admin
\* passes; for anyone else the scopes are gone through in order, and the
\* first full one ends the call with False
CheckRateLimit(u, ch, admin) ==
    /\ IF admin
       THEN /\ verdict' = "True"
            /\ UNCHANGED <<rate, passed>>
       ELSE LET by == Refusing(1, u, ch, clock)
                reached == {i \in DOMAIN Scopes : by = "none" \/ i <= Place(by)}
                scopeOf(k) == CHOOSE i \in reached : RateKey(Scopes[i], u, ch) = k
            IN /\ verdict' = IF by = "none" THEN "True" ELSE by
               /\ rate' = [k \in RateKeys |->
                             IF \E i \in reached : RateKey(Scopes[i], u, ch) = k
                             THEN RateAfter(Scopes[scopeOf(k)], k, clock,
                                            Scopes[scopeOf(k)] = by)
                             ELSE rate[k]]
               /\ passed' = [k \in RateKeys |->
                               IF by = "none" /\ \E i \in reached : RateKey(Scopes[i], u, ch) = k
                               THEN Passed(passed[k], Scopes[scopeOf(k)], clock)
                               ELSE passed[k]]
    /\ UNCHANGED <<now, lockVars, cacheVars, sent, inst, balVars, purVars, gbret, cooldown,
                   grants, cooldowns, clock>>

(***************************************************************************)
(* TransactionManager.process_purchase.  The three reads it awaits first   *)
(* are steps with the outcomes the callee can have; the statements after   *)
(* get_available_stock are never reached, see PurStock.                    *)
(***************************************************************************)
\* what an awaited read hands back: a row, None, or an exception (the
\* UnboundLocalError of its finally block when get_connection() failed)
ReadOutcomes == {"value", "none", "raise"}

\* the k-th read, growid = await get_growid(buyer_id) (k = 0) or
\* product = await get_product(code) (k = 1):
\* None raises TransactionError, an exception becomes "An unexpected error
\* occurred", a value lets the purchase go on
PurRead(c, r, k) ==
    /\ pc[c] = "cs"
    /\ cop[c] = "process_purchase"
    /\ pstep[c] = k
    /\ IF r = "value"
       THEN /\ pstep' = [pstep EXCEPT ![c] = k + 1]
            /\ UNCHANGED <<pc, out>>
       ELSE /\ pstep' = [pstep EXCEPT ![c] = 0]
            /\ pc' = [pc EXCEPT ![c] = "pur_finally"]
            /\ out' = [out EXCEPT ![c] =
                          IF r = "none" THEN "TransactionError" ELSE "unexpected error"]
    /\ UNCHANGED <<now, locks, made, lockObj, ckey, cref, cstart, ctimeout, fut, cop, conn,
                   holds, misuse, rel, cacheVars, sent, inst, balVars, stock, trxlog,
                   cmdVars, gbret>>

\* (mutant) the stock row is marked sold before the failure and stays so
PurStock_marksSold(c) ==
    /\ pc[c] = "cs"
    /\ cop[c] = "process_purchase"
    /\ pstep[c] = 2
    /\ stock' = "sold"
    /\ pstep' = [pstep EXCEPT ![c] = 0]
    /\ pc' = [pc EXCEPT ![c] = "pur_finally"]
    /\ out' = [out EXCEPT ![c] = "unexpected error"]
    /\ UNCHANGED <<now, locks, made, lockObj, ckey, cref, cstart, ctimeout, fut, cop, conn,
                   holds, misuse, rel, cacheVars, sent, inst, balVars, trxlog, cmdVars, gbret>>

\* available_stock = await get_available_stock(code, quantity): the callee
\* evaluates the name STATUS_AVAILABLE, which its module does not define, so
\* the call raises NameError (or TransactionError when its lock is busy);
\* nothing has been written and control goes to the finally block
PurStock(c) ==
    /\ pc[c] = "cs"
    /\ cop[c] = "process_purchase"
    /\ pstep[c] = 2
    /\ pstep' = [pstep EXCEPT ![c] = 0]
    /\ pc' = [pc EXCEPT ![c] = "pur_finally"]
    /\ out' = [out EXCEPT ![c] = "unexpected error"]
    /\ UNCHANGED <<now, locks, made, lockObj, ckey, cref, cstart, ctimeout, fut, cop, conn,
                   holds, misuse, rel, cacheVars, sent, inst, balVars, stock, trxlog,
                   cmdVars, gbret>>

\* finally: conn is still None; self.release_lock("purchase_<buyer>_<code>")
PurFinally(c) ==
    /\ pc[c] = "pur_finally"
    /\ ReleaseEffect(ckey[c])
    /\ holds' = [holds EXCEPT ![c] = NoKey]
    /\ pc' = [pc EXCEPT ![c] = "done"]
    /\ UNCHANGED <<now, locks, made, ckey, cref, cstart, ctimeout, cop, conn, misuse, rel, out,
                   cacheVars, appVars>>

(***************************************************************************)
(* BalanceManagerService.get_balance                                       *)
(***************************************************************************)
\* cached = await cache_manager.get("balance_<growid>") finds the entry
GbHit(c) ==
    /\ Idle(c)
    /\ bcache # NoBalance
    /\ gbret' = [gbret EXCEPT ![c] = bcache]
    /\ cop' = [cop EXCEPT ![c] = "get_balance"]
    /\ pc' = [pc EXCEPT ![c] = "done"]
    /\ out' = [out EXCEPT ![c] = "cached"]
    /\ UNCHANGED <<now, locks, made, lockObj, ckey, cref, cstart, ctimeout, fut, conn, holds,
                   misuse, rel, cacheVars, sent, inst, balVars, purVars, cmdVars>>

\* the entry is absent: acquire_lock("balance_<growid>")
GbMiss(c) ==
    /\ bcache = NoBalance
    /\ SvcStart(c, "get_balance")

\* with the lock, without a suspension: get_connection(), the SELECT,
\* cache_manager.set of the balance read, the finally block.  When
\* get_connection() raises, `if conn:` in the finally block raises
\* UnboundLocalError before release_lock
GbBody(c, ok) ==
    /\ pc[c] = "cs"
    /\ cop[c] = "get_balance"
    /\ IF ok
       THEN /\ IF store.exists
               THEN /\ bcache' = store.balance
                    /\ gbret' = [gbret EXCEPT ![c] = store.balance]
                    /\ out' = [out EXCEPT ![c] = "balance"]
               ELSE /\ gbret' = [gbret EXCEPT ![c] = NoBalance]
                    /\ out' = [out EXCEPT ![c] = "None"]
                    /\ UNCHANGED bcache
            /\ ReleaseEffect(ckey[c])
            /\ holds' = [holds EXCEPT ![c] = NoKey]
       ELSE /\ gbret' = [gbret EXCEPT ![c] = NoBalance]
            /\ out' = [out EXCEPT ![c] = "UnboundLocalError"]
            /\ UNCHANGED <<bcache, lockObj, fut, holds>>
    /\ pc' = [pc EXCEPT ![c] = "done"]
    /\ UNCHANGED <<now, locks, made, ckey, cref, cstart, ctimeout, cop, conn, misuse, rel,
                   cacheVars, sent, inst, store, work, hist, applied, purVars, cmdVars>>

\* the caller of get_balance has used the result
GbReturn(c) ==
    /\ pc[c] = "done"
    /\ cop[c] = "get_balance"
    /\ pc' = [pc EXCEPT ![c] = "idle"]
    /\ ckey' = [ckey EXCEPT ![c] = NoKey]
    /\ cref' = [cref EXCEPT ![c] = NoLock]
    /\ cstart' = [cstart EXCEPT ![c] = 0]
    /\ ctimeout' = [ctimeout EXCEPT ![c] = 0]
    /\ cop' = [cop EXCEPT ![c] = "none"]
    /\ conn' = [conn EXCEPT ![c] = "none"]
    /\ holds' = [holds EXCEPT ![c] = NoKey]
    /\ out' = [out EXCEPT ![c] = "none"]
    /\ gbret' = [gbret EXCEPT ![c] = NoBalance]
    /\ UNCHANGED <<now, locks, made, lockObj, fut, misuse, rel, cacheVars, sent, inst,
                   balVars, purVars, cmdVars>>

\* the 30 seconds of the entry balance_<growid> are over, or an admin
\* command has deleted it
BcacheExpire ==
    /\ bcache # NoBalance
    /\ bcache' = NoBalance
    /\ UNCHANGED <<now, lockVars, cacheVars, sent, inst, store, work, hist, applied,
                   extVars>>

\* the operations of BalanceManagerService that call no acquire_lock
BareOps == {"get_user_by_growid", "get_transaction_history"}

\* such an operation starts (cache miss): conn = get_connection() inside
\* its try block returns a connection, or raises and leaves conn unbound
BareOpen(c, op, ok) ==
    /\ Idle(c)
    /\ cop' = [cop EXCEPT ![c] = op]
    /\ conn' = [conn EXCEPT ![c] = IF ok THEN "open" ELSE "unbound"]
    /\ pc' = [pc EXCEPT ![c] = "bare"]
    /\ UNCHANGED <<now, locks, made, lockObj, ckey, cref, cstart, ctimeout, fut, holds,
                   misuse, rel, out, cacheVars, appVars>>

\* its query, its cache_manager.set (get_transaction_history caches the
\* list under trx_history_<growid>) and its finally block: if conn:
\* conn.close()
BareFinish(c) ==
    /\ pc[c] = "bare"
    /\ conn' = [conn EXCEPT ![c] = IF @ = "open" THEN "closed" ELSE @]
    /\ hist' = IF cop[c] = "get_transaction_history" /\ conn[c] = "open" THEN TRUE ELSE hist
    /\ pc' = [pc EXCEPT ![c] = "done"]
    /\ out' = [out EXCEPT ![c] = "finished"]
    /\ UNCHANGED <<now, locks, made, lockObj, ckey, cref, cstart, ctimeout, fut, cop, holds,
                   misuse, rel, cacheVars, sent, inst, store, work, bcache, applied,
                   extVars>>

\* the operation is over; the coroutine can run another one
SvcReturn(c) ==
    /\ pc[c] = "done"
    /\ pc' = [pc EXCEPT ![c] = "idle"]
    /\ ckey' = [ckey EXCEPT ![c] = NoKey]
    /\ cref' = [cref EXCEPT ![c] = NoLock]
    /\ cstart' = [cstart EXCEPT ![c] = 0]
    /\ ctimeout' = [ctimeout EXCEPT ![c] = 0]
    /\ cop' = [cop EXCEPT ![c] = "none"]
    /\ conn' = [conn EXCEPT ![c] = "none"]
    /\ holds' = [holds EXCEPT ![c] = NoKey]
    /\ out' = [out EXCEPT ![c] = "none"]
    /\ UNCHANGED <<now, locks, made, lockObj, fut, misuse, rel, cacheVars, appVars>>

(***************************************************************************)
(* AdminCog._process_command: one attempt to answer a command message.     *)
(* Every attempt has its own Context of the same message (so the attribute *)
(* is_being_processed is not found on it) and its author is the admin.     *)
(***************************************************************************)
\* lock = await self.acquire_lock(cache_key)
AdminStart(c) ==
    /\ CallAcquire(c, AdminKey, LockTimeout, "admin")

\* if not lock: send the "System Busy" embed and return False
AdminBusy(c) ==
    /\ pc[c] = "failed"
    /\ cop[c] = "admin"
    /\ sent' = sent + 1
    /\ pc' = [pc EXCEPT ![c] = "done"]
    /\ out' = [out EXCEPT ![c] = "busy"]
    /\ UNCHANGED <<now, locks, made, lockObj, ckey, cref, cstart, ctimeout, fut, cop, conn,
                   holds, misuse, rel, cacheVars, inst, balVars,
                   extVars>>

\* response_lock = await self.acquire_response_lock(ctx): the Lock of the
\* message id is looked up or created and wait_for(acquire()) starts
AdminRespond(c) ==
    /\ pc[c] = "cs"
    /\ cop[c] = "admin"
    /\ IF locks[RespKey] = NoLock
       THEN /\ made[RespKey] + 1 \in Gens
            /\ made' = [made EXCEPT ![RespKey] = @ + 1]
            /\ locks' = [locks EXCEPT ![RespKey] = made[RespKey] + 1]
            /\ lockObj' = [lockObj EXCEPT ![RespKey][made[RespKey] + 1] = NewLock]
            /\ cref' = [cref EXCEPT ![c] = made[RespKey] + 1]
       ELSE /\ cref' = [cref EXCEPT ![c] = locks[RespKey]]
            /\ UNCHANGED <<locks, made, lockObj>>
    /\ pc' = [pc EXCEPT ![c] = "calling"]
    /\ ckey' = [ckey EXCEPT ![c] = RespKey]
    /\ cstart' = [cstart EXCEPT ![c] = now]
    /\ ctimeout' = [ctimeout EXCEPT ![c] = ResponseTimeout]
    /\ cop' = [cop EXCEPT ![c] = "response"]
    /\ UNCHANGED <<now, fut, conn, holds, misuse, rel, out, cacheVars, appVars>>

\* with the response lock: await callback(), which answers the command (or
\* raises, and the error embed is sent); without it: the notice
\* "Harap tunggu ..." is sent
AdminReply(c) ==
    /\ pc[c] \in {"cs", "failed"}
    /\ cop[c] = "response"
    /\ sent' = sent + 1
    /\ pc' = [pc EXCEPT ![c] = IF pc[c] = "cs" THEN "replied" ELSE "refused"]
    /\ out' = [out EXCEPT ![c] = IF pc[c] = "cs" THEN "answered" ELSE "wait"]
    /\ UNCHANGED <<now, locks, made, lockObj, ckey, cref, cstart, ctimeout, fut, cop, conn,
                   holds, misuse, rel, cacheVars, inst, balVars,
                   extVars>>

\* the Locks and the futures after release of key k, as functions
UnlockIn(lo, k) ==
    IF locks[k] # NoLock /\ lo[k][locks[k]].locked
    THEN [lo EXCEPT ![k][locks[k]].locked = FALSE] ELSE lo
WakeIn(lo, f, k) ==
    IF locks[k] # NoLock /\ lo[k][locks[k]].locked
    THEN WakeUpFirst(lo[k][locks[k]].waiters, f) ELSE f

\* the finally blocks: release_response_lock(ctx) when the callback ran,
\* then release_lock(cache_key)
AdminFinish(c) ==
    /\ pc[c] \in {"replied", "refused"}
    /\ LET lo1 == IF pc[c] = "replied" THEN UnlockIn(lockObj, RespKey) ELSE lockObj
           f1 == IF pc[c] = "replied" THEN WakeIn(lockObj, fut, RespKey) ELSE fut
       IN /\ lockObj' = UnlockIn(lo1, AdminKey)
          /\ fut' = WakeIn(lo1, f1, AdminKey)
    /\ pc' = [pc EXCEPT ![c] = "done"]
    /\ holds' = [holds EXCEPT ![c] = NoKey]
    /\ UNCHANGED <<now, locks, made, ckey, cref, cstart, ctimeout, cop, conn, misuse, rel,
                   out, cacheVars, appVars>>

(***************************************************************************)
(* BaseLockHandler.cleanup and the cog unload that calls it                *)
(***************************************************************************)
\* the registry after owner.cleanup(): self._locks.clear() and
\* self._response_locks.clear(), whatever the state of the Locks
Cleared(owner) == [k \in Keys |-> IF OwnerOf(k) = owner THEN NoLock ELSE locks[k]]

\* BalanceManagerCog.cog_unload: self.balance_service.cleanup() runs (the
\* await of its result, None, then raises TypeError)
CogUnload ==
    /\ locks # Cleared("BalanceManagerService")
    /\ locks' = Cleared("BalanceManagerService")
    /\ UNCHANGED <<now, made, lockObj, pc, ckey, cref, cstart, ctimeout, fut, cop, conn,
                   holds, misuse, rel, out, cacheVars, appVars>>

(***************************************************************************)
(* AutoMod (cogs/automod.py): the configuration commands and config_lock   *)
(***************************************************************************)
\* `async with self.config_lock` entered by c for operation op: acquire()
\* is awaited directly, with no wait_for around it
AsyncWith(c, op) ==
    LET k == ConfigKey
        g == locks[k]
    IN
    /\ ckey' = [ckey EXCEPT ![c] = k]
    /\ cref' = [cref EXCEPT ![c] = g]
    /\ cop' = [cop EXCEPT ![c] = op]
    /\ IF CanAcquireNow(Obj(k, g))
       THEN /\ lockObj' = [lockObj EXCEPT ![k][g].locked = TRUE]
            /\ pc' = [pc EXCEPT ![c] = "cs"]
            /\ holds' = [holds EXCEPT ![c] = k]
            /\ UNCHANGED <<fut, cstart, ctimeout>>
       ELSE /\ lockObj' = [lockObj EXCEPT ![k][g].waiters = Append(@, c)]
            /\ fut' = [fut EXCEPT ![c] = "pending"]
            /\ pc' = [pc EXCEPT ![c] = "waiting"]
            /\ cstart' = [cstart EXCEPT ![c] = now]
            /\ ctimeout' = [ctimeout EXCEPT ![c] = NoTimeout]
            /\ UNCHANGED holds

\* the end of an `async with self.config_lock` block: Lock.release()
ExitWith(c) ==
    /\ lockObj' = [lockObj EXCEPT ![ckey[c]][cref[c]].locked = FALSE]
    /\ fut' = WakeUpFirst(Obj(ckey[c], cref[c]).waiters, fut)
    /\ pc' = [pc EXCEPT ![c] = "idle"]
    /\ holds' = [holds EXCEPT ![c] = NoKey]
    /\ ckey' = [ckey EXCEPT ![c] = NoKey]
    /\ cref' = [cref EXCEPT ![c] = NoLock]
    /\ cop' = [cop EXCEPT ![c] = "none"]
    /\ UNCHANGED <<cstart, ctimeout>>

\* the command `automod addword`: add_banned_word enters its block
AddBannedWord(c) ==
    /\ Idle(c)
    /\ AsyncWith(c, "add_banned_word")
    /\ UNCHANGED <<now, locks, made, conn, misuse, rel, out, cacheVars, appVars>>

\* the block of add_banned_word: a word already in the list is answered and
\* the block is left; a new word is appended and save_config() is awaited,
\* which enters `async with self.config_lock` while the caller is inside it
AddBannedWordBody(c, known) ==
    /\ pc[c] = "cs"
    /\ cop[c] = "add_banned_word"
    /\ IF known
       THEN ExitWith(c)
       ELSE AsyncWith(c, "save_config")
    /\ UNCHANGED <<now, locks, made, conn, misuse, rel, out, cacheVars, appVars>>

\* the command `automod toggle`: toggle_automod answers, holding no lock,
\* and awaits save_config(), which enters its block
ToggleAutomod(c) ==
    /\ Idle(c)
    /\ AsyncWith(c, "save_config")
    /\ UNCHANGED <<now, locks, made, conn, misuse, rel, out, cacheVars, appVars>>

\* save_config inside its block: the file is written and the block is left
SaveConfig(c) ==
    /\ pc[c] = "cs"
    /\ cop[c] = "save_config"
    /\ ExitWith(c)
    /\ UNCHANGED <<now, locks, made, conn, misuse, rel, out, cacheVars, appVars>>

\* get_mute_lock: the Lock registered for the guild, made now when the
\* dictionary has no entry
GetMuteLock == IF locks[MuteKey] = NoLock THEN made[MuteKey] + 1 ELSE locks[MuteKey]

\* mute_user up to its first suspension: `async with await
\* self.get_mute_lock(guild)`, the acquire() awaited with no time limit
MuteUser(c) ==
    LET k == MuteKey
        g == GetMuteLock
    IN
    /\ Idle(c)
    /\ g \in Gens
    /\ locks' = [locks EXCEPT ![k] = g]
    /\ made' = [made EXCEPT ![k] = IF locks[k] = NoLock THEN g ELSE @]
    /\ ckey' = [ckey EXCEPT ![c] = k]
    /\ cref' = [cref EXCEPT ![c] = g]
    /\ cop' = [cop EXCEPT ![c] = "mute_user"]
    /\ IF CanAcquireNow(Obj(k, g))
       THEN /\ lockObj' = [lockObj EXCEPT ![k][g].locked = TRUE]
            /\ pc' = [pc EXCEPT ![c] = "cs"]
            /\ holds' = [holds EXCEPT ![c] = k]
            /\ UNCHANGED <<fut, cstart, ctimeout>>
       ELSE /\ lockObj' = [lockObj EXCEPT ![k][g].waiters = Append(@, c)]
            /\ fut' = [fut EXCEPT ![c] = "pending"]
            /\ pc' = [pc EXCEPT ![c] = "waiting"]
            /\ cstart' = [cstart EXCEPT ![c] = now]
            /\ ctimeout' = [ctimeout EXCEPT ![c] = NoTimeout]
            /\ UNCHANGED holds
    /\ UNCHANGED <<now, conn, misuse, rel, out, cacheVars, appVars>>

\* the block of mute_user: the role is given, the mute is waited out, the
\* role is taken back and the block is left
MuteUserBody(c) ==
    /\ pc[c] = "cs"
    /\ cop[c] = "mute_user"
    /\ ExitWith(c)
    /\ UNCHANGED <<now, locks, made, conn, misuse, rel, out, cacheVars, appVars>>

\* one pass of periodic_cleanup over mute_locks: the entry whose Lock is
\* not locked is deleted from the dictionary (the spam times and the old
\* warnings it also prunes are not part of this state)
PeriodicCleanup ==
    /\ locks[MuteKey] # NoLock
    /\ ~Obj(MuteKey, locks[MuteKey]).locked
    /\ locks' = [locks EXCEPT ![MuteKey] = NoLock]
    /\ UNCHANGED <<now, made, lockObj, pc, ckey, cref, cstart, ctimeout, fut, cop, conn,
                   holds, misuse, rel, out, cacheVars, appVars>>

(***************************************************************************)
(* Time: the loop runs every ready task and every due timer first          *)
(***************************************************************************)
Ready(c) ==
    \/ pc[c] = "calling"
    \/ fut[c] \in {"result", "cancelled", "result_cancel"}
    \/ pc[c] = "waiting" /\ TimerDue(c)

Tick ==
    /\ now < MaxTime
    /\ \A c \in Coros : ~Ready(c)
    /\ now' = now + 1
    /\ UNCHANGED <<lockVars, cacheVars, appVars>>

(***************************************************************************)
(* CacheManager: values and their durable encoding                         *)
(***************************************************************************)
CKeys == {"flag"}
ExpiresIn == {1, 2}
Faults == {"none", "connect", "query", "write"}

\* Python values: the type of the value and the text str() gives for it
VDict == [tag |-> "dict", txt |-> "{'wl': 100}"]
VStr == [tag |-> "str", txt |-> "hello"]
VNumStr == [tag |-> "str", txt |-> "123"]
VInt == [tag |-> "int", txt |-> "123"]
Values == {VDict, VStr, VNumStr, VInt}
Default == [tag |-> "default", txt |-> ""]
PyTrue == [tag |-> "bool", txt |-> "True"]
PyFalse == [tag |-> "bool", txt |-> "False"]
PyNone == [tag |-> "NoneType", txt |-> "None"]
StatsMapping == [tag |-> "dict", txt |-> "memory_cache,db_cache"]
EmptyMapping == [tag |-> "dict", txt |-> "{}"]

\* isinstance(value, (str, int, float, bool))
IsPrimitive(v) == v.tag \in {"str", "int", "float", "bool"}

\* json.dumps of a value that is not a primitive
JsonDumps(v) ==
    CASE v = VDict -> "{\"wl\": 100}"
      [] OTHER -> "null"

\* the text that reaches the TEXT column: a primitive is bound as it is (and
\* the column affinity turns a number into its text), anything else goes
\* through json.dumps first
StoredText(v) == IF IsPrimitive(v) THEN v.txt ELSE JsonDumps(v)

\* (mutant) a text that cannot be decoded is answered with the default
JsonLoads_default(t) ==
    CASE t = "{\"wl\": 100}" -> [ok |-> TRUE, value |-> VDict]
      [] t = "123" -> [ok |-> TRUE, value |-> VInt]
      [] OTHER -> [ok |-> FALSE, value |-> Default]

\* json.loads on a stored text: the decoded value, or a JSONDecodeError
JsonLoads(t) ==
    CASE t = "{\"wl\": 100}" -> [ok |-> TRUE, value |-> VDict]
      [] t = "123" -> [ok |-> TRUE, value |-> VInt]
      [] OTHER -> [ok |-> FALSE, value |-> [tag |-> "str", txt |-> t]]

\* Python's == on two values
PyEq(a, b) == a = b

\* CacheManager._is_valid
IsValid(e, t) == e.expires_at > t

\* (mutant) a row is still served at the instant it expires
RowValid_inclusive(r, t) == r.expires_at >= t

\* the same test on a durable row: expires_at > datetime.utcnow()
RowValid(r, t) == r.expires_at > t

\* dict operations
Has(d, k) == k \in DOMAIN d
Without(d, k) == [x \in DOMAIN d \ {k} |-> d[x]]
With(d, k, e) == [x \in DOMAIN d \cup {k} |-> IF x = k THEN e ELSE d[x]]
Empty == [x \in {} |-> 0]

\* (mutant) no `except Exception` around the body of the operation
Handler_innerOnly(op, f) ==
    IF f = "none" THEN "none"
    ELSE IF f = "connect" \/ op = "get_stats" THEN "nobody"
    ELSE "inner"

\* which handler catches a store fault: get_connection() is called outside
\* the inner try, so only `except Exception` sees it; get_stats has no inner
\* `except SQLiteError`
Handler(op, f) ==
    IF f = "none" THEN "none"
    ELSE IF f = "connect" \/ op = "get_stats" THEN "outer"
    ELSE "inner"

\* the value an operation returns from its handlers
SoftFail(op) ==
    CASE op = "get" -> Default
      [] op \in {"set", "delete", "clear"} -> PyFalse
      [] op = "cleanup" -> PyNone
      [] op = "get_stats" -> EmptyMapping

\* history of one key: what the most recent set/delete/clear did
NoSet == [kind |-> "none", value |-> Default, expires_at |-> 0,
          permanent |-> FALSE, ok |-> FALSE, lost |-> FALSE]
Deleted(ok) == [NoSet EXCEPT !.kind = IF ok THEN "deleted" ELSE "unknown"]

NoRow == [value |-> "", expires_at |-> -1]
NoOp == [op |-> "none", key |-> NoKey, ret |-> PyNone, fault |-> "none",
         raised |-> FALSE, hit |-> FALSE, row |-> NoRow, prev |-> "none"]

\* the record of a finished call
Call(op, k, ret, f) ==
    [op |-> op, key |-> k,
     ret |-> IF Handler(op, f) \in {"inner", "outer"} THEN SoftFail(op) ELSE ret,
     fault |-> f,
     raised |-> (f # "none" /\ Handler(op, f) \notin {"inner", "outer"}),
     hit |-> (Has(memory_cache, k) /\ now < memory_cache[k].expires_at),
     row |-> IF Has(cache_table, k) THEN cache_table[k] ELSE NoRow,
     prev |-> IF k \in CKeys THEN latest[k].kind ELSE "none"]

\* `async with self._lock`: entered only when the lock is free, and left
\* released on every path out of the block
EnterLock == ~cacheLock

\* (mutant) a path out of the block keeps the lock
ExitLock_keeps == cacheLock' = cacheLock

ExitLock == cacheLock' = FALSE

(***************************************************************************)
(* CacheManager.get                                                        *)
(***************************************************************************)
\* memory tier after the first block of get: an expired entry is evicted
EvictExpired(k) ==
    IF Has(memory_cache, k) /\ ~IsValid(memory_cache[k], now)
    THEN Without(memory_cache, k) ELSE memory_cache

MemoryHit(k) == Has(memory_cache, k) /\ IsValid(memory_cache[k], now)

\* the store faults that can strike get(k)
GetFaults(k) ==
    IF MemoryHit(k) THEN {"none"}
    ELSE IF Has(cache_table, k) /\ ~RowValid(cache_table[k], now)
         THEN {"none", "connect", "query", "write"}
    ELSE {"none", "connect", "query"}

\* (mutant) the promoted entry lives one unit longer than its row
Promoted_longer(row, value) == [value |-> value, expires_at |-> row.expires_at + 1]

\* the memory entry get makes of a durable row: the decoded value and the
\* row's expires_at, parsed back from the text isoformat() wrote
Promoted(row, value) == [value |-> value, expires_at |-> row.expires_at]

Get(k, f) ==
    /\ f \in GetFaults(k)
    /\ IF MemoryHit(k)
       THEN /\ last' = Call("get", k, memory_cache[k].value, f)
            /\ UNCHANGED <<memory_cache, cache_table, cacheLock>>
       ELSE /\ EnterLock
            /\ ExitLock
            /\ IF f \in {"connect", "query"} \/ ~Has(cache_table, k)
               THEN /\ memory_cache' = EvictExpired(k)
                    /\ last' = Call("get", k, Default, f)
                    /\ UNCHANGED cache_table
               ELSE LET row == cache_table[k]
                        dec == JsonLoads(row.value)
                    IN IF RowValid(row, now)
                       THEN /\ memory_cache' =
                                 IF dec.ok
                                 THEN With(EvictExpired(k), k, Promoted(row, dec.value))
                                 ELSE EvictExpired(k)
                            /\ last' = Call("get", k, dec.value, f)
                            /\ UNCHANGED cache_table
                       ELSE /\ memory_cache' = EvictExpired(k)
                            /\ cache_table' = IF f = "write" THEN cache_table
                                              ELSE Without(cache_table, k)
                            /\ last' = Call("get", k, Default, f)
    /\ UNCHANGED <<now, latest, lockVars, appVars>>

(***************************************************************************)
(* CacheManager.set                                                        *)
(***************************************************************************)
\* (mutant) the memory tier is written only after the durable write
MemAfterSet_afterCommit(k, v, e, permanent, f) ==
    IF permanent /\ f # "none" THEN memory_cache
    ELSE With(memory_cache, k, [value |-> v, expires_at |-> now + e])

\* memory tier after set: written before the durable tier is touched
MemAfterSet(k, v, e, permanent, f) ==
    With(memory_cache, k, [value |-> v, expires_at |-> now + e])

\* (mutant) the row is written whatever `permanent` says
TableAfterSet_always(k, v, e, permanent, f) ==
    IF f = "none"
    THEN With(cache_table, k, [value |-> StoredText(v), expires_at |-> now + e])
    ELSE cache_table

\* durable tier after set: INSERT OR REPLACE when permanent and committed
TableAfterSet(k, v, e, permanent, f) ==
    IF permanent /\ f = "none"
    THEN With(cache_table, k, [value |-> StoredText(v), expires_at |-> now + e])
    ELSE cache_table

Set(k, v, e, permanent, f) ==
    /\ f \in IF permanent THEN {"none", "connect", "write"} ELSE {"none"}
    /\ IF permanent THEN EnterLock /\ ExitLock ELSE UNCHANGED cacheLock
    /\ memory_cache' = MemAfterSet(k, v, e, permanent, f)
    /\ cache_table' = TableAfterSet(k, v, e, permanent, f)
    /\ last' = Call("set", k, PyTrue, f)
    /\ latest' = [latest EXCEPT ![k] =
                     [kind |-> "set", value |-> v, expires_at |-> now + e,
                      permanent |-> permanent, ok |-> (f = "none"), lost |-> FALSE]]
    /\ UNCHANGED <<now, lockVars, appVars>>

(***************************************************************************)
(* CacheManager.delete, clear, cleanup, get_stats                          *)
(***************************************************************************)
\* (mutant) delete removes the durable row only
Delete_keepsMemory(k, f) ==
    /\ f \in {"none", "connect", "write"}
    /\ EnterLock
    /\ ExitLock
    /\ cache_table' = IF f = "none" THEN Without(cache_table, k) ELSE cache_table
    /\ last' = Call("delete", k, PyTrue, f)
    /\ latest' = [latest EXCEPT ![k] = Deleted(f = "none")]
    /\ UNCHANGED <<now, memory_cache, lockVars, appVars>>

Delete(k, f) ==
    /\ f \in {"none", "connect", "write"}
    /\ EnterLock
    /\ ExitLock
    /\ memory_cache' = Without(memory_cache, k)
    /\ cache_table' = IF f = "none" THEN Without(cache_table, k) ELSE cache_table
    /\ last' = Call("delete", k, PyTrue, f)
    /\ latest' = [latest EXCEPT ![k] = Deleted(f = "none")]
    /\ UNCHANGED <<now, lockVars, appVars>>

\* (mutant) clear empties the memory tier only
Clear_memoryOnly(f) ==
    /\ f \in {"none", "connect", "write"}
    /\ EnterLock
    /\ ExitLock
    /\ memory_cache' = Empty
    /\ cache_table' = cache_table
    /\ last' = Call("clear", NoKey, PyTrue, f)
    /\ latest' = [k \in CKeys |-> Deleted(f = "none")]
    /\ UNCHANGED <<now, lockVars, appVars>>

Clear(f) ==
    /\ f \in {"none", "connect", "write"}
    /\ EnterLock
    /\ ExitLock
    /\ memory_cache' = Empty
    /\ cache_table' = IF f = "none" THEN Empty ELSE cache_table
    /\ last' = Call("clear", NoKey, PyTrue, f)
    /\ latest' = [k \in CKeys |-> Deleted(f = "none")]
    /\ UNCHANGED <<now, lockVars, appVars>>

\* the entries cleanup keeps in each tier
MemKept == {k \in DOMAIN memory_cache : ~(memory_cache[k].expires_at <= now)}
RowsKept == {k \in DOMAIN cache_table : ~(cache_table[k].expires_at < now)}

\* (mutant) the memory tier is swept after the store was opened
Cleanup_storeFirst(f) ==
    /\ f \in {"none", "connect", "write"}
    /\ EnterLock
    /\ ExitLock
    /\ memory_cache' = IF f = "connect" THEN memory_cache
                       ELSE [k \in MemKept |-> memory_cache[k]]
    /\ cache_table' = IF f = "none" THEN [k \in RowsKept |-> cache_table[k]]
                      ELSE cache_table
    /\ last' = Call("cleanup", NoKey, PyNone, f)
    /\ UNCHANGED <<now, latest, lockVars, appVars>>

Cleanup(f) ==
    /\ f \in {"none", "connect", "write"}
    /\ EnterLock
    /\ ExitLock
    /\ memory_cache' = [k \in MemKept |-> memory_cache[k]]
    /\ cache_table' = IF f = "none" THEN [k \in RowsKept |-> cache_table[k]]
                      ELSE cache_table
    /\ last' = Call("cleanup", NoKey, PyNone, f)
    /\ UNCHANGED <<now, latest, lockVars, appVars>>

GetStats(f) ==
    /\ f \in {"none", "connect", "query"}
    /\ EnterLock
    /\ ExitLock
    /\ last' = Call("get_stats", NoKey, StatsMapping, f)
    /\ UNCHANGED <<now, memory_cache, cache_table, latest, lockVars, appVars>>

(***************************************************************************)
(* CacheManager: the durable section of an operation, statement by         *)
(* statement, for coroutines that call the manager concurrently            *)
(***************************************************************************)
DurOps == {"get", "set", "delete", "clear", "cleanup", "get_stats"}

\* an operation reaches `async with self._lock` (get after a memory miss,
\* set with permanent=True, the others always)
DurCall(c, op) ==
    /\ Idle(c)
    /\ pc' = [pc EXCEPT ![c] = "at_lock"]
    /\ cop' = [cop EXCEPT ![c] = op]
    /\ UNCHANGED <<now, locks, made, lockObj, ckey, cref, cstart, ctimeout, fut, conn,
                   holds, misuse, rel, out, cacheVars, appVars>>

\* (mutant) the block is entered without the lock
DurEnter_noLock(c) ==
    /\ pc[c] = "at_lock"
    /\ cacheLock' = TRUE
    /\ pc' = [pc EXCEPT ![c] = "locked"]
    /\ UNCHANGED <<now, locks, made, lockObj, ckey, cref, cstart, ctimeout, fut, cop, conn,
                   holds, misuse, rel, out, memory_cache, cache_table, last, latest,
                   appVars>>

\* where a cache operation returns to: a caller that holds a domain lock is
\* in its try block and goes on to its finally block with conn = None
\* (process_purchase, process_deposit); any other caller is finished
DurReturn(c) ==
    /\ pc' = [pc EXCEPT ![c] = IF holds[c] = NoKey THEN "idle" ELSE "finally"]
    /\ cop' = [cop EXCEPT ![c] = IF holds[c] = NoKey THEN "none" ELSE @]

\* the cache connection of c is closed (or was never made)
DurConnClosed(c) == IF holds[c] = NoKey THEN "none" ELSE ConnInit(cop[c])

\* self._lock.acquire() returns: the lock was free, or was released
DurEnter(c) ==
    /\ pc[c] = "at_lock"
    /\ EnterLock
    /\ cacheLock' = TRUE
    /\ pc' = [pc EXCEPT ![c] = "locked"]
    /\ UNCHANGED <<now, locks, made, lockObj, ckey, cref, cstart, ctimeout, fut, cop, conn,
                   holds, misuse, rel, out, memory_cache, cache_table, last, latest,
                   appVars>>

\* conn = get_connection(): a connection, or an exception that leaves the
\* block and with it the lock
DurConnect(c, ok) ==
    /\ pc[c] = "locked"
    /\ IF ok
       THEN /\ conn' = [conn EXCEPT ![c] = "open"]
            /\ pc' = [pc EXCEPT ![c] = "querying"]
            /\ UNCHANGED <<cacheLock, cop>>
       ELSE /\ ExitLock
            /\ DurReturn(c)
            /\ conn' = [conn EXCEPT ![c] = DurConnClosed(c)]
    /\ UNCHANGED <<now, locks, made, lockObj, ckey, cref, cstart, ctimeout, fut,
                   holds, misuse, rel, out, memory_cache, cache_table, last, latest,
                   appVars>>

\* the statements of the inner try: they finish, or raise and are caught
DurQuery(c) ==
    /\ pc[c] = "querying"
    /\ pc' = [pc EXCEPT ![c] = "closing"]
    /\ UNCHANGED <<now, locks, made, lockObj, ckey, cref, cstart, ctimeout, fut, cop, conn,
                   holds, misuse, rel, out, cacheVars, appVars>>

\* finally: conn.close(), and the end of the `async with` block
DurClose(c) ==
    /\ pc[c] = "closing"
    /\ conn' = [conn EXCEPT ![c] = DurConnClosed(c)]
    /\ ExitLock
    /\ DurReturn(c)
    /\ UNCHANGED <<now, locks, made, lockObj, ckey, cref, cstart, ctimeout, fut,
                   holds, misuse, rel, out, memory_cache, cache_table, last, latest,
                   appVars>>

\* the operations that call get_growid, and through it the cache, as the
\* first statement under their own lock
LeafOps == {"process_purchase", "process_deposit"}

\* growid = await get_growid(id) inside the caller's lock: cache.get misses
\* the memory tier and reaches `async with self._lock`
LeafCall(c) ==
    /\ pc[c] = "cs"
    /\ cop[c] \in LeafOps
    /\ pc' = [pc EXCEPT ![c] = "at_lock"]
    /\ UNCHANGED <<now, locks, made, lockObj, ckey, cref, cstart, ctimeout, fut, cop, conn,
                   holds, misuse, rel, out, cacheVars, appVars>>

(***************************************************************************)
(* The process restarts: the memory tier starts empty, the table persists  *)
(***************************************************************************)
Restart ==
    /\ memory_cache # Empty
    /\ memory_cache' = Empty
    /\ cacheLock' = FALSE
    /\ last' = NoOp
    /\ latest' = [k \in CKeys |->
                    IF latest[k].kind = "set" THEN [latest[k] EXCEPT !.lost = TRUE]
                    ELSE latest[k]]
    /\ UNCHANGED <<now, cache_table, lockVars, appVars>>

\* time passes between two cache calls
CacheTick ==
    /\ now < MaxTime
    /\ now' = now + 1
    /\ last' = NoOp
    /\ UNCHANGED <<memory_cache, cache_table, cacheLock, latest, lockVars, appVars>>

(***************************************************************************)
(* Singletons: CacheManager() and the domain services                      *)
(***************************************************************************)
Classes == {"CacheManager", "BalanceManagerService", "ProductManagerService",
            "TransactionManager"}
Services == Classes \ {"CacheManager"}
NoInstance == 0

\* a class before its first construction, and after it
Unborn == [cur |-> NoInstance, born |-> 0, initialized |-> FALSE, handed |-> {}]
Built == [cur |-> 1, born |-> 1, initialized |-> TRUE, handed |-> {1}]

\* the constructors that run inside the first __init__ of a class, itself
\* included: every service builds CacheManager(), TransactionManager also
\* builds the two other services
Needs(x) ==
    CASE x = "CacheManager" -> {"CacheManager"}
      [] x = "BalanceManagerService" -> {"BalanceManagerService", "CacheManager"}
      [] x = "ProductManagerService" -> {"ProductManagerService", "CacheManager"}
      [] x = "TransactionManager" -> Classes

\* (mutant) __new__ makes a new object on every construction
New_always(r) ==
    [r EXCEPT !.cur = r.born + 1, !.born = r.born + 1, !.initialized = FALSE]

\* __new__: the class attribute _instance is filled only once
New(r) ==
    IF r.cur = NoInstance
    THEN [r EXCEPT !.cur = r.born + 1, !.born = r.born + 1, !.initialized = FALSE]
    ELSE r

\* (mutant) __init__ without the test of `initialized`
RunsInit_always(r) == TRUE

\* __init__ runs its body only on an object that is not yet initialized
RunsInit(r) == ~r.initialized

\* one constructor call on the record of its class
Constructed(r) ==
    LET n == New(r)
    IN [n EXCEPT !.initialized = TRUE, !.handed = @ \cup {n.cur}]

\* the classes whose constructor is called when x is constructed: x, and
\* what the body of its __init__ constructs when that body runs
Called(x) == IF RunsInit(New(inst[x])) THEN Needs(x) ELSE {x}

\* the classes whose __init__ body runs when class x is constructed
Inits(x) == {y \in Called(x) : RunsInit(New(inst[y]))}

\* the record of a constructor call: the class, and whether an instance of
\* it existed before
Built_call(x) ==
    [NoOp EXCEPT !.op = "construct", !.key = x, !.hit = (inst[x].cur # NoInstance)]

\* x = Class(...): the object returned is recorded, a body of __init__ that
\* runs starts from an empty memory tier or an empty lock registry
Construct(x) ==
    /\ inst' = [y \in Classes |->
                  IF y \in Called(x) THEN Constructed(inst[y]) ELSE inst[y]]
    /\ memory_cache' = IF "CacheManager" \in Inits(x) THEN Empty ELSE memory_cache
    /\ locks' = [k \in Keys |-> IF OwnerOf(k) \in Inits(x) THEN NoLock ELSE locks[k]]
    /\ last' = Built_call(x)
    /\ UNCHANGED <<now, made, lockObj, pc, ckey, cref, cstart, ctimeout, fut, cop, conn,
                   holds, misuse, rel, out, cache_table, cacheLock, latest, sent, balVars,
                   extVars>>

CacheInit ==
    /\ memory_cache = Empty
    /\ cache_table = Empty
    /\ cacheLock = FALSE
    /\ last = NoOp
    /\ latest = [k \in CKeys |-> NoSet]

\* the registries and the coroutines at start; the Locks named in `created`
\* are made by a constructor, every other Lock on first use
RegistryInit(created) ==
    /\ locks = [k \in Keys |-> IF k \in created THEN 1 ELSE NoLock]
    /\ made = [k \in Keys |-> IF k \in created THEN 1 ELSE 0]
    /\ lockObj = [k \in Keys |-> [g \in Gens |-> NewLock]]
    /\ pc = [c \in Coros |-> "idle"]
    /\ ckey = [c \in Coros |-> NoKey]
    /\ cref = [c \in Coros |-> NoLock]
    /\ cstart = [c \in Coros |-> 0]
    /\ ctimeout = [c \in Coros |-> 0]
    /\ fut = [c \in Coros |-> "none"]
    /\ cop = [c \in Coros |-> "none"]
    /\ conn = [c \in Coros |-> "none"]
    /\ holds = [c \in Coros |-> NoKey]
    /\ misuse = FALSE
    /\ rel = NoRel
    /\ out = [c \in Coros |-> "none"]

LockInit == RegistryInit({})

\* the users row of GrowID 1 (present or not) with its balance, no UPDATE
\* pending on any connection, nothing cached for the GrowID
\* one item of product 1 is in stock and nothing is recorded
PurInit ==
    /\ pstep = [c \in Coros |-> 0]
    /\ stock = "available"
    /\ trxlog = 0

\* the command handler has answered nothing yet: its cache keys are absent
CmdInitWith(cfg) ==
    /\ cooldowns = cfg
    /\ clock = 0
    /\ cooldown = NoEntry
    /\ rate = [k \in RateKeys |-> NoEntry]
    /\ grants = <<>>
    /\ passed = [k \in RateKeys |-> <<>>]
    /\ verdict = "none"

\* config.json could not be read: _get_default_config
CmdInit == CmdInitWith(DefaultCooldowns)

\* gbret[c]: the balance the last get_balance of c returned
ExtInit == PurInit /\ CmdInit /\ gbret = [c \in Coros |-> NoBalance]

BalInit(exists) ==
    /\ ExtInit
    /\ store = [exists |-> exists, balance |-> InitialBalance]
    /\ work = [c \in Coros |-> NoWork]
    /\ bcache = NoBalance
    /\ hist = FALSE
    /\ applied = 0

\* every singleton has been constructed when the bot is running
AppInit ==
    /\ sent = 0
    /\ inst = [x \in Classes |-> Built]
    /\ BalInit(TRUE)

Init ==
    /\ now = 0
    /\ LockInit
    /\ CacheInit
    /\ AppInit

\* the process at start, before any singleton is constructed
FreshInit ==
    /\ now = 0
    /\ LockInit
    /\ CacheInit
    /\ sent = 0
    /\ inst = [x \in Classes |-> Unborn]
    /\ BalInit(TRUE)

LockNext ==
    \/ \E c \in Coros, k \in ClientKeys, t \in Timeouts : AcquireLock(c, k, t)
    \/ \E c \in Coros : LockAcquire(c)
    \/ \E c \in Coros : LockResume(c)
    \/ \E c \in Coros : TimerFire(c)
    \/ \E c \in Coros : CancelResume(c)
    \/ \E c \in Coros : ReleaseLock(c)
    \/ \E c \in Coros, k \in ClientKeys : StrayRelease(c, k)
    \/ \E c \in Coros : GiveUp(c)
    \/ Tick

LockSpec == Init /\ [][LockNext]_vars

SvcNext ==
    \/ \E c \in Coros, op \in SvcOps : SvcStart(c, op)
    \/ \E c \in Coros : LockAcquire(c)
    \/ \E c \in Coros : LockResume(c)
    \/ \E c \in Coros : TimerFire(c)
    \/ \E c \in Coros : CancelResume(c)
    \/ \E c \in Coros : SvcOpen(c)
    \/ \E c \in Coros : SvcBody(c)
    \/ \E c \in Coros : SvcFinally(c)
    \/ \E c \in Coros : SvcBusy(c)
    \/ \E c \in Coros : SvcReturn(c)
    \/ Tick

SvcSpec == Init /\ [][SvcNext]_vars

\* two calls, each of any operation, each made once
BusyCoros == {"c1", "c2"}

BusyNext ==
    \/ \E c \in BusyCoros, op \in AllOps : SvcStart(c, op)
    \/ \E c \in Coros : LockAcquire(c)
    \/ \E c \in Coros : LockResume(c)
    \/ \E c \in Coros : TimerFire(c)
    \/ \E c \in Coros : CancelResume(c)
    \/ \E c \in Coros : SvcOpen(c)
    \/ \E c \in Coros : SvcBody(c)
    \/ \E c \in Coros : SvcFinally(c)
    \/ \E c \in Coros : SvcBusy(c)
    \/ Tick

BusySpec == Init /\ [][BusyNext]_vars

UnloadNext ==
    \/ \E c \in Coros : SvcStart(c, "update_balance")
    \/ \E c \in Coros : LockAcquire(c)
    \/ \E c \in Coros : LockResume(c)
    \/ \E c \in Coros : TimerFire(c)
    \/ \E c \in Coros : CancelResume(c)
    \/ \E c \in Coros : SvcOpen(c)
    \/ \E c \in Coros : SvcBody(c)
    \/ \E c \in Coros : SvcFinally(c)
    \/ \E c \in Coros : SvcBusy(c)
    \/ \E c \in Coros : SvcReturn(c)
    \/ CogUnload
    \/ Tick

UnloadSpec == Init /\ [][UnloadNext]_vars

RespNext ==
    \/ \E c \in Coros : AdminStart(c)
    \/ \E c \in Coros : LockAcquire(c)
    \/ \E c \in Coros : LockResume(c)
    \/ \E c \in Coros : TimerFire(c)
    \/ \E c \in Coros : CancelResume(c)
    \/ \E c \in Coros : AdminBusy(c)
    \/ \E c \in Coros : AdminRespond(c)
    \/ \E c \in Coros : AdminReply(c)
    \/ \E c \in Coros : AdminFinish(c)
    \/ Tick

RespSpec == Init /\ [][RespNext]_vars

AutoNext ==
    \/ \E c \in Coros : AddBannedWord(c)
    \/ \E c \in Coros, known \in BOOLEAN : AddBannedWordBody(c, known)
    \/ \E c \in Coros : ToggleAutomod(c)
    \/ \E c \in Coros : SaveConfig(c)
    \/ \E c \in Coros : LockResume(c)
    \/ Tick

\* AutoMod.__init__ has made config_lock
AutoInit ==
    /\ now = 0
    /\ RegistryInit({ConfigKey})
    /\ CacheInit
    /\ AppInit

AutoSpec == AutoInit /\ [][AutoNext]_vars

\* AutoMod while members are muted and the hourly cleanup runs
MuteNext ==
    \/ \E c \in Coros : MuteUser(c)
    \/ \E c \in Coros : MuteUserBody(c)
    \/ \E c \in Coros : LockResume(c)
    \/ PeriodicCleanup
    \/ Tick

MuteSpec == Init /\ [][MuteNext]_vars

\* a call through a reference to the cache manager someone was handed
HasCache == inst["CacheManager"].handed # {}
CacheSet(k, v, e, p, f) == HasCache /\ Set(k, v, e, p, f)
CacheGet(k, f) == HasCache /\ Get(k, f)
\* a call of operation op through a reference to its service
HasService(op) == inst[OwnerOf(KeyOf(op))].handed # {}
ServiceCall(c, op) == HasService(op) /\ SvcStart(c, op)

\* constructions by any call site, between the calls on the cache (the
\* store answers every call)
SingCacheNext ==
    \/ \E x \in Classes : Construct(x)
    \/ \E k \in CKeys, v \in Values, e \in ExpiresIn, p \in BOOLEAN :
          CacheSet(k, v, e, p, "none")
    \/ \E k \in CKeys : CacheGet(k, "none")
    \/ CacheTick

SingCacheSpec == FreshInit /\ [][SingCacheNext]_vars

\* one mutating operation of one service and one read operation of another
SingOps == {"update_balance", "get_product"}

\* constructions by any call site, between the operations of the services
SingSvcNext ==
    \/ \E x \in Classes : Construct(x)
    \/ \E c \in BusyCoros, op \in SingOps : ServiceCall(c, op)
    \/ \E c \in Coros : LockAcquire(c)
    \/ \E c \in Coros : LockResume(c)
    \/ \E c \in Coros : TimerFire(c)
    \/ \E c \in Coros : CancelResume(c)
    \/ \E c \in Coros : SvcOpen(c)
    \/ \E c \in Coros : SvcBody(c)
    \/ \E c \in Coros : SvcFinally(c)
    \/ \E c \in Coros : SvcBusy(c)
    \/ \E c \in Coros : SvcReturn(c)
    \/ Tick

SingSvcSpec == FreshInit /\ [][SingSvcNext]_vars

\* operations with a lock and operations without one, side by side
NestNext ==
    \/ \E c \in BusyCoros, op \in SingOps : SvcStart(c, op)
    \/ \E c \in Coros, op \in BareOps, ok \in BOOLEAN : BareOpen(c, op, ok)
    \/ \E c \in Coros : BareFinish(c)
    \/ \E c \in Coros : LockAcquire(c)
    \/ \E c \in Coros : LockResume(c)
    \/ \E c \in Coros : TimerFire(c)
    \/ \E c \in Coros : CancelResume(c)
    \/ \E c \in Coros : SvcOpen(c)
    \/ \E c \in Coros : SvcBody(c)
    \/ \E c \in Coros : SvcFinally(c)
    \/ \E c \in Coros : SvcBusy(c)
    \/ \E c \in Coros : SvcReturn(c)
    \/ Tick

NestSpec == Init /\ [][NestNext]_vars

\* calls of update_balance from any call site, and readers of the history
UbNext ==
    \/ \E c \in Coros : SvcStart(c, "update_balance")
    \/ \E c \in Coros : LockAcquire(c)
    \/ \E c \in Coros : LockResume(c)
    \/ \E c \in Coros : TimerFire(c)
    \/ \E c \in Coros : CancelResume(c)
    \/ \E c \in Coros : SvcBusy(c)
    \/ \E c \in Coros, delta \in Deltas, ok \in BOOLEAN : UbRead(c, delta, ok)
    \/ \E c \in Coros, ok \in BOOLEAN : UbCommit(c, ok)
    \/ \E c \in Coros : UbCache(c)
    \/ \E c \in Coros : UbInvalidate(c)
    \/ \E c \in Coros : UbFinally(c)
    \/ \E c \in Coros : SvcReturn(c)
    \/ \E c \in Coros, ok \in BOOLEAN : BareOpen(c, "get_transaction_history", ok)
    \/ \E c \in Coros : BareFinish(c)
    \/ Tick

\* the user of GrowID 1 is registered, or is not
UbInit ==
    /\ now = 0
    /\ LockInit
    /\ CacheInit
    /\ sent = 0
    /\ inst = [x \in Classes |-> Built]
    /\ \E exists \in BOOLEAN : BalInit(exists)

UbSpec == UbInit /\ [][UbNext]_vars

\* purchases of product 1 by buyer 1, started from any command or button
PurNext ==
    \/ \E c \in Coros : SvcStart(c, "process_purchase")
    \/ \E c \in Coros : LockAcquire(c)
    \/ \E c \in Coros : LockResume(c)
    \/ \E c \in Coros : TimerFire(c)
    \/ \E c \in Coros : CancelResume(c)
    \/ \E c \in Coros : SvcBusy(c)
    \/ \E c \in Coros, r \in ReadOutcomes, k \in {0, 1} : PurRead(c, r, k)
    \/ \E c \in Coros : PurStock(c)
    \/ \E c \in Coros : PurFinally(c)
    \/ \E c \in Coros : SvcReturn(c)
    \/ Tick

PurSpec == Init /\ [][PurNext]_vars

\* one coroutine that calls update_balance and two that call get_balance
Writers == {"c1"}
Readers == {"c2", "c3"}

CohNext ==
    \/ \E c \in Writers : SvcStart(c, "update_balance")
    \/ \E c \in Readers : GbHit(c)
    \/ \E c \in Readers : GbMiss(c)
    \/ \E c \in Readers, ok \in BOOLEAN : GbBody(c, ok)
    \/ BcacheExpire
    \/ \E c \in Coros : LockAcquire(c)
    \/ \E c \in Coros : LockResume(c)
    \/ \E c \in Coros : TimerFire(c)
    \/ \E c \in Coros : CancelResume(c)
    \/ \E c \in Coros : SvcBusy(c)
    \/ \E c \in Coros, delta \in Deltas, ok \in BOOLEAN : UbRead(c, delta, ok)
    \/ \E c \in Coros, ok \in BOOLEAN : UbCommit(c, ok)
    \/ \E c \in Coros : UbCache(c)
    \/ \E c \in Coros : UbInvalidate(c)
    \/ \E c \in Coros : UbFinally(c)
    \/ \E c \in Writers : SvcReturn(c)
    \/ \E c \in Readers : GbReturn(c)
    \/ Tick

CohSpec == Init /\ [][CohNext]_vars

DurNext ==
    \/ \E c \in Coros, op \in DurOps : DurCall(c, op)
    \/ \E c \in Coros : DurEnter(c)
    \/ \E c \in Coros, ok \in BOOLEAN : DurConnect(c, ok)
    \/ \E c \in Coros : DurQuery(c)
    \/ \E c \in Coros : DurClose(c)

DurSpec == Init /\ [][DurNext]_vars
\* sets of a string, made while other callers are in their durable sections
SetNext ==
    \/ \E c \in BusyCoros, op \in DurOps : DurCall(c, op)
    \/ \E c \in Coros : DurEnter(c)
    \/ \E c \in Coros, ok \in BOOLEAN : DurConnect(c, ok)
    \/ \E c \in Coros : DurQuery(c)
    \/ \E c \in Coros : DurClose(c)
    \/ \E k \in CKeys, e \in ExpiresIn, p \in BOOLEAN, f \in Faults : Set(k, VStr, e, p, f)

SetSpec == Init /\ [][SetNext]_vars

\* purchases and deposits that call the cache under their locks, beside
\* callers of the cache that hold no lock
LeafNext ==
    \/ \E c \in Coros, op \in LeafOps : SvcStart(c, op)
    \/ \E c \in Coros : LockAcquire(c)
    \/ \E c \in Coros : LockResume(c)
    \/ \E c \in Coros : TimerFire(c)
    \/ \E c \in Coros : CancelResume(c)
    \/ \E c \in Coros : SvcBusy(c)
    \/ \E c \in Coros : LeafCall(c)
    \/ \E c \in Coros : DurCall(c, "delete")
    \/ \E c \in Coros : DurEnter(c)
    \/ \E c \in Coros, ok \in BOOLEAN : DurConnect(c, ok)
    \/ \E c \in Coros : DurQuery(c)
    \/ \E c \in Coros : DurClose(c)
    \/ \E c \in Coros : SvcFinally(c)
    \/ \E c \in Coros : SvcReturn(c)
    \/ Tick

LeafSpec == Init /\ [][LeafNext]_vars

\* the command handler under any configuration of the cooldowns
CdInit ==
    /\ now = 0
    /\ LockInit
    /\ CacheInit
    /\ sent = 0
    /\ inst = [x \in Classes |-> Built]
    /\ PurInit
    /\ gbret = [c \in Coros |-> NoBalance]
    /\ store = [exists |-> TRUE, balance |-> InitialBalance]
    /\ work = [c \in Coros |-> NoWork]
    /\ bcache = NoBalance
    /\ hist = FALSE
    /\ applied = 0
    /\ \E cfg \in Cooldowns : CmdInitWith(cfg)

CdNext ==
    \/ \E admin \in BOOLEAN : CheckCooldown(admin)
    \/ CmdTick

CdSpec == CdInit /\ [][CdNext]_vars

\* commands of two users in one channel, and of the admin
RlNext ==
    \/ \E u \in Users, ch \in Channels, admin \in BOOLEAN : CheckRateLimit(u, ch, admin)
    \/ CmdTick

RlSpec == Init /\ [][RlNext]_vars

CacheNext ==
    \/ \E k \in CKeys, f \in Faults : Get(k, f)
    \/ \E k \in CKeys, v \in Values, e \in ExpiresIn, p \in BOOLEAN, f \in Faults :
          Set(k, v, e, p, f)
    \/ \E k \in CKeys, f \in Faults : Delete(k, f)
    \/ \E f \in Faults : Clear(f)
    \/ \E f \in Faults : Cleanup(f)
    \/ \E f \in Faults : GetStats(f)
    \/ Restart
    \/ CacheTick

CacheSpec == Init /\ [][CacheNext]_vars

(***************************************************************************)
(* Properties                                                              *)
(***************************************************************************)

\* C1: Exclusivity.  While release_lock(k) is only called by the holder of
\* k, no two coroutines hold the same key, and a coroutine obtains k only in
\* a step that starts with k's Lock unlocked and nobody holding k, that is
\* after the previous holder called release_lock(k).
C1_Exclusivity ==
    /\ [](~misuse => \A c, d \in Coros :
             holds[c] # NoKey /\ holds[c] = holds[d] => c = d)
    /\ [][~misuse =>
            \A c \in Coros :
               holds[c] = NoKey /\ holds'[c] # NoKey =>
                  /\ ~Obj(ckey[c], cref[c]).locked
                  /\ \A d \in Coros : holds[d] # holds'[c]]_vars

\* one coroutine holds a key while a second acquire_lock on it is queued
C1_Witness ==
    \E c, d \in Coros :
       /\ c # d
       /\ ~misuse
       /\ holds[c] # NoKey
       /\ pc[d] = "waiting"
       /\ ckey[d] = holds[c]

\* C2: Bounded wait.  A call of acquire_lock never waits past its timeout;
\* a call that timed out returned None: its caller does not hold the key,
\* and the step in which it returns leaves a locked Lock locked and every
\* other coroutine's holding unchanged.
C2_BoundedWait ==
    /\ [](\A c \in Coros :
            /\ pc[c] = "waiting" => now <= cstart[c] + ctimeout[c]
            /\ pc[c] = "failed" => holds[c] = NoKey)
    /\ [][\A c \in Coros :
            pc[c] = "waiting" /\ pc'[c] # "waiting" /\ fut[c] # "result" =>
               /\ pc'[c] = "failed"
               /\ now >= cstart[c] + ctimeout[c]
               /\ \A d \in Coros : holds'[d] = holds[d]
               /\ Obj(ckey[c], cref[c]).locked =>
                     lockObj'[ckey[c]][cref[c]].locked]_vars

\* a waiter has timed out while another coroutine still holds the key
C2_Witness ==
    \E c, h \in Coros :
       /\ c # h
       /\ ~misuse
       /\ pc[c] = "failed"
       /\ holds[h] = ckey[c]
       /\ Obj(ckey[c], cref[c]).locked

\* C3: No leaked lock.  A service operation that has finished holds no key:
\* whatever it acquired was released on the way out, also when opening the
\* store connection failed.
C3_NoLeak == \A c \in Coros : pc[c] = "done" => holds[c] = NoKey

\* C4: TTL correctness.  With the most recent set of the key being
\* set(key, v, expires_in) and the memory tier kept since, get(key) returns
\* v while now < expires_at and default once now >= expires_at.
C4_TTL ==
    (last.op = "get" /\ latest[last.key].kind = "set" /\ ~latest[last.key].lost) =>
       IF now < latest[last.key].expires_at
       THEN last.ret = latest[last.key].value
       ELSE last.ret = Default

\* C5: Refresh on set.  set leaves the memory entry with the new value and
\* expiry, and a get after it (same process) returns default or the value
\* of that latest set (as written, or as read back from its durable row),
\* never the value of an earlier set.
C5_Refresh ==
    /\ last.op = "set" =>
          /\ Has(memory_cache, last.key)
          /\ memory_cache[last.key].value = latest[last.key].value
          /\ memory_cache[last.key].expires_at = latest[last.key].expires_at
    /\ (last.op = "get" /\ latest[last.key].kind = "set" /\ ~latest[last.key].lost) =>
          last.ret \in {Default, latest[last.key].value,
                        JsonLoads(StoredText(latest[last.key].value)).value}

\* C6: Restart recovery.  After a successful set(key, v, expires_in,
\* permanent=True) and a restart, a get(key) before expires_at that meets no
\* store fault returns a value equal to v.
C6_RestartRecovery ==
    (/\ last.op = "get"
     /\ last.fault = "none"
     /\ latest[last.key].kind = "set"
     /\ latest[last.key].permanent
     /\ latest[last.key].ok
     /\ latest[last.key].lost
     /\ now < latest[last.key].expires_at)
    => PyEq(last.ret, latest[last.key].value)

\* get(key) found no valid memory entry and read a durable row that expired
FoundExpiredRow ==
    /\ last.op = "get"
    /\ last.fault \in {"none", "write"}
    /\ ~last.hit
    /\ last.row # NoRow
    /\ last.row.expires_at <= now

\* C7 as stated: an expired durable entry is never returned, and after the
\* get that found it the durable tier no longer contains the key.
C7_ExpiredPurged ==
    FoundExpiredRow => last.ret = Default /\ ~Has(cache_table, last.key)

\* C7 as amended: an expired durable entry is never returned, and after the
\* get that found it the durable tier no longer contains the key unless the
\* DELETE of that get met a store failure.
C7_ExpiredNeverReturned ==
    FoundExpiredRow =>
       /\ last.ret = Default
       /\ last.fault = "none" => ~Has(cache_table, last.key)

\* a get has just purged an expired durable row
C7_Witness ==
    /\ FoundExpiredRow
    /\ last.fault = "none"
    /\ last.ret = Default
    /\ ~Has(cache_table, last.key)

\* C8: delete is idempotent and total.  A delete that meets no store failure
\* returns True whether or not the key existed, leaves the key in neither
\* tier, and a get after it (with no set in between) returns default.
C8_DeleteIdempotent ==
    /\ (last.op = "delete" /\ last.fault = "none") =>
          /\ last.ret = PyTrue
          /\ ~last.raised
          /\ ~Has(memory_cache, last.key)
          /\ ~Has(cache_table, last.key)
    /\ (last.op = "get" /\ latest[last.key].kind = "deleted") => last.ret = Default

\* a second delete in a row has returned True
C8_Witness ==
    /\ last.op = "delete"
    /\ last.prev = "deleted"
    /\ last.row = NoRow
    /\ last.ret = PyTrue

\* C9: a store failure during set(key, v, expires_in, permanent=True) makes
\* set return False without raising, the memory tier holds v all the same,
\* and a later get before expires_at (same process) returns v.
C9_SetFailureKeepsMemory ==
    /\ (last.op = "set" /\ last.fault # "none") =>
          /\ last.ret = PyFalse
          /\ ~last.raised
          /\ Has(memory_cache, last.key)
          /\ memory_cache[last.key].value = latest[last.key].value
    /\ (/\ last.op = "get"
        /\ latest[last.key].kind = "set"
        /\ latest[last.key].permanent
        /\ ~latest[last.key].ok
        /\ ~latest[last.key].lost
        /\ now < latest[last.key].expires_at)
       => last.ret = latest[last.key].value

\* a get has returned the value of a set whose durable write failed
C9_Witness ==
    /\ last.op = "get"
    /\ latest[last.key].kind = "set"
    /\ latest[last.key].permanent
    /\ ~latest[last.key].ok
    /\ ~latest[last.key].lost
    /\ last.ret = latest[last.key].value

\* C10: no store fault escapes.  No call raises, the internal lock is free
\* after every call, and a call that met a store failure returned its soft
\* value: default for get, False for set/delete/clear, None for cleanup, a
\* mapping for get_stats.
C10_NoFaultEscapes ==
    /\ ~last.raised
    /\ cacheLock = FALSE
    /\ last.fault # "none" =>
          /\ last.op = "get" => last.ret = Default
          /\ last.op \in {"set", "delete", "clear"} => last.ret = PyFalse
          /\ last.op = "cleanup" => last.ret = PyNone
          /\ last.op = "get_stats" => last.ret.tag = "dict"

\* a call has met a connection failure and returned
C10_Witness ==
    /\ last.op \in {"get", "set", "delete", "clear", "cleanup", "get_stats"}
    /\ last.fault = "connect"
    /\ ~last.raised

C12_ResponseOnce ==
    /\ sent <= 1
    /\ ((\E c \in Coros : pc[c] = "done") /\ (\A c \in Coros : pc[c] \in {"idle", "done"}))
          => sent = 1

\* C13: the registry never destroys a mutex while it is held.  The Lock a
\* coroutine holds is the one registered under its key, and no two
\* coroutines are inside the section of one key, cleanup() and cog unload
\* included.
C13_HeldStaysRegistered ==
    /\ \A c \in Coros : holds[c] # NoKey => locks[holds[c]] = cref[c]
    /\ \A c, d \in Coros : holds[c] # NoKey /\ holds[c] = holds[d] => c = d

\* an operation leaves acquire_lock with None: it is over at once, it has
\* opened no store connection and written nothing to the cache
AbortsWithoutLock(c) ==
    (pc[c] = "failed" /\ pc'[c] # "failed") =>
       /\ pc'[c] = "done"
       /\ conn[c] = "none" /\ conn'[c] = "none"
       /\ UNCHANGED cacheVars

\* C14 as stated: no operation proceeds without its lock; the mutating
\* operations raise TransactionError and the read operations return their
\* empty result.
C14_NoLockNoWork ==
    [][\A c \in Coros :
         /\ AbortsWithoutLock(c)
         /\ (pc[c] = "failed" /\ pc'[c] # "failed") =>
               out'[c] = IF cop[c] \in ReadOps THEN "empty" ELSE "TransactionError"]_vars

\* C14 as amended: the same, except that get_available_stock, a read
\* operation, raises TransactionError like the mutating operations.
C14_NoLockNoWorkButStock ==
    [][\A c \in Coros :
         /\ AbortsWithoutLock(c)
         /\ (pc[c] = "failed" /\ pc'[c] # "failed") =>
               out'[c] = IF cop[c] \in ReadOps \ {"get_available_stock"}
                         THEN "empty" ELSE "TransactionError"]_vars

\* update_balance has raised TransactionError without a connection while
\* the other call is still inside the section of its key
C14_Witness ==
    \E c, h \in Coros :
       /\ c # h
       /\ pc[c] = "done"
       /\ cop[c] = "update_balance"
       /\ out[c] = "TransactionError"
       /\ conn[c] = "none"
       /\ holds[h] = KeyOf("update_balance")
       /\ pc[h] \in {"cs", "body", "finally"}

\* C15: every lock acquisition is bounded by an explicit timeout: a
\* coroutine that waits on a mutex has a time limit and is not found waiting
\* after that limit has passed.
C15_EveryWaitBounded ==
    \A c \in Coros :
        pc[c] = "waiting" =>
            /\ ctimeout[c] # NoTimeout
            /\ now <= Deadline(cstart[c], ctimeout[c])

\* the entries of tier d that have expired at time t: expires_at <= t, the
\* boundary at which get treats an entry as absent
Expired(d, t) == {k \in DOMAIN d : d[k].expires_at <= t}

\* C16: after a cleanup() that meets no store failure no entry with
\* expires_at <= now remains in the memory tier or in the durable tier, and
\* every entry that has not expired is still there, unchanged.
C16_CleanupSweepsBoth ==
    /\ [](last.op = "cleanup" /\ last.fault = "none" =>
             /\ Expired(memory_cache, now) = {}
             /\ Expired(cache_table, now) = {})
    /\ [][Cleanup("none") =>
             /\ \A k \in DOMAIN memory_cache \ Expired(memory_cache, now) :
                    Has(memory_cache', k) /\ memory_cache'[k] = memory_cache[k]
             /\ \A k \in DOMAIN cache_table \ Expired(cache_table, now) :
                    Has(cache_table', k) /\ cache_table'[k] = cache_table[k]]_vars

\* C17: a get_stats() whose durable query fails raises nothing and its
\* result still carries the statistics of the memory tier.
C17_StatsKeepMemoryHalf ==
    last.op = "get_stats" /\ last.fault # "none" =>
        /\ ~last.raised
        /\ last.ret # EmptyMapping

\* C18: when the durable sweep of cleanup() fails, the memory tier has been
\* swept all the same (no expired entry is left in it, no other entry is
\* lost), the durable tier is as it was, and cleanup() returns None without
\* raising, its lock released.
C18_PartialCleanup ==
    /\ [](last.op = "cleanup" /\ last.fault # "none" =>
             /\ Expired(memory_cache, now) = {}
             /\ ~last.raised
             /\ last.ret = PyNone
             /\ ~cacheLock)
    /\ [][\A f \in {"connect", "write"} :
             Cleanup(f) =>
                /\ cache_table' = cache_table
                /\ \A k \in DOMAIN memory_cache \ Expired(memory_cache, now) :
                       Has(memory_cache', k) /\ memory_cache'[k] = memory_cache[k]]_vars

\* C18 (witness): a cleanup() has failed at the store, the durable tier
\* still holds the expired row of a set whose memory entry is gone
C18_Witness ==
    /\ last.op = "cleanup"
    /\ last.fault \in {"connect", "write"}
    /\ Expired(cache_table, now) = {"flag"}
    /\ latest["flag"].kind = "set"
    /\ ~latest["flag"].lost
    /\ memory_cache = Empty

\* C19: every construction CacheManager() yields the same instance, a
\* later construction leaves the memory tier as it is, and a get returns
\* the value of the latest set while that entry has not expired, whatever
\* constructions came in between.
C19_CacheSingleton ==
    /\ [](inst["CacheManager"].handed \subseteq {1})
    /\ [][\A x \in Classes :
             Construct(x) /\ inst["CacheManager"].cur # NoInstance =>
                memory_cache' = memory_cache]_vars
    /\ [](last.op = "get" /\ latest[last.key].kind = "set"
             /\ now < latest[last.key].expires_at =>
                last.ret = latest[last.key].value)

\* C19 (witness): after a set, CacheManager() was constructed again and the
\* memory tier still holds the entry of that set
C19_Witness ==
    /\ last.op = "construct"
    /\ last.key = "CacheManager"
    /\ last.hit
    /\ latest["flag"].kind = "set"
    /\ Has(memory_cache, "flag")
    /\ memory_cache["flag"].value = latest["flag"].value

\* C20: every construction of a service returns its first instance, a
\* construction leaves the lock registry of an existing service as it is,
\* and so a coroutine that holds a key holds the Lock registered under it
\* and no two coroutines hold one key.
C20_ServiceSingleton ==
    /\ [](\A x \in Services : inst[x].handed \subseteq {1})
    /\ [][\A x \in Classes :
             Construct(x) =>
                \A k \in Keys :
                   OwnerOf(k) \in Services /\ inst[OwnerOf(k)].cur # NoInstance =>
                      locks'[k] = locks[k]]_vars
    /\ [](\A c \in Coros :
             holds[c] # NoKey =>
                /\ locks[holds[c]] = cref[c]
                /\ \A c2 \in Coros \ {c} : holds[c2] # holds[c])

\* C20 (witness): BalanceManagerService was constructed again, and two
\* calls of one operation contend on one Lock: one holds it, one waits
C20_Witness ==
    /\ last.op = "construct"
    /\ last.key = "BalanceManagerService"
    /\ last.hit
    /\ \E c \in Coros, c2 \in Coros :
          /\ holds[c] = "balance_update_1"
          /\ pc[c2] = "waiting"
          /\ ckey[c2] = "balance_update_1"
          /\ cref[c2] = cref[c]
          /\ locks["balance_update_1"] = cref[c]

\* the coroutines that have a durable-store connection open
OpenConns == {c \in Coros : conn[c] = "open"}

\* C21: at any instant at most one CacheManager operation has a durable
\* store connection open, and the one that has it is inside the lock.
C21_OneConnection ==
    /\ Cardinality(OpenConns) <= 1
    /\ OpenConns # {} => cacheLock

\* C21 (witness): one operation has its connection open while two others
\* stand at the lock
C21_Witness ==
    /\ Cardinality(OpenConns) = 1
    /\ Cardinality({c \in Coros : pc[c] = "at_lock"}) = 2

\* both tiers hold nothing
BothEmpty == memory_cache = Empty /\ cache_table = Empty

\* C22: after clear() returns True both tiers are empty, and from then on,
\* until a set is made, they stay empty and every get returns default.
C22_ClearFlushes ==
    /\ [](last.op = "clear" /\ last.ret = PyTrue => BothEmpty)
    /\ [][BothEmpty
             /\ ~(\E k \in CKeys, v \in Values, e \in ExpiresIn, p \in BOOLEAN,
                     f \in Faults : Set(k, v, e, p, f)) =>
                /\ BothEmpty'
                /\ last'.op = "get" => last'.ret = Default]_vars

\* C22 (witness): a clear() that met no store failure has returned True
C22_Witness ==
    /\ last.op = "clear"
    /\ last.ret = PyTrue
    /\ last.fault = "none"
    /\ latest["flag"].kind = "deleted"
    /\ now > 0

\* C23: a store connection is open only in an operation that holds its
\* logical lock: it is opened after the lock was acquired and closed before
\* the lock is released.
C23_ConnInsideLock ==
    \A c \in Coros :
        conn[c] = "open" => holds[c] # NoKey /\ holds[c] = ckey[c]

\* c stands before d in the waiter queue w
Before(c, d, w) == \E i, j \in DOMAIN w : i < j /\ w[i] = c /\ w[j] = d

\* C24: waiters are served in arrival order.  When a coroutine obtains a
\* key while another one is waiting for it and has not timed out, the one
\* that obtains it was queued on the same Lock before the other.
C24_ArrivalOrder ==
    [][\A c, d \in Coros :
          /\ c # d
          /\ holds[c] = NoKey /\ holds'[c] # NoKey
          /\ pc[d] = "waiting" /\ ckey[d] = holds'[c]
          /\ fut[d] \in {"pending", "result"}
          => Before(c, d, Obj(ckey[c], cref[c]).waiters)]_vars

\* C24 (witness): the Lock of a key was released with two waiters queued;
\* the first has been woken and the second still waits
C24_Witness ==
    \E k \in ClientKeys :
       /\ locks[k] # NoLock
       /\ Len(Obj(k, locks[k]).waiters) = 2
       /\ fut[Obj(k, locks[k]).waiters[1]] = "result"
       /\ fut[Obj(k, locks[k]).waiters[2]] = "pending"

\* get(key) found no valid memory entry, read a durable row that has not
\* expired and met no store failure
AnsweredFromRow ==
    /\ last.op = "get"
    /\ last.fault = "none"
    /\ ~last.hit
    /\ last.row # NoRow
    /\ now < last.row.expires_at

\* C25: a get answered from an unexpired durable entry leaves the key in
\* the memory tier with the value it returned, also when the stored text
\* could not be decoded.
C25_ReadPromotion ==
    AnsweredFromRow =>
       /\ Has(memory_cache, last.key)
       /\ memory_cache[last.key].value = last.ret

\* the Python string with text t
RawString(t) == [tag |-> "str", txt |-> t]

\* C26: a get on an unexpired durable entry whose text the decoder rejects
\* returns that text as a string, and neither raises nor returns default.
C26_RawOnDecodeFailure ==
    AnsweredFromRow /\ ~JsonLoads(last.row.value).ok =>
       /\ last.ret = RawString(last.row.value)
       /\ last.ret # Default
       /\ ~last.raised

\* C26 (witness): a get has returned the text "hello" of a durable row
C26_Witness ==
    /\ AnsweredFromRow
    /\ last.row.value = "hello"
    /\ last.ret = VStr

\* C27: set with permanent=False leaves the durable tier and the internal
\* lock as they are; set with permanent=True that meets no store failure
\* leaves the row of its key with the stored text of the value and the new
\* expiry, and no other set changes the durable tier.
C27_MemoryOnlySet ==
    /\ [][\A k \in CKeys, v \in Values, e \in ExpiresIn, f \in Faults :
             Set(k, v, e, FALSE, f) =>
                cache_table' = cache_table /\ cacheLock' = cacheLock]_vars
    /\ [][\A k \in CKeys, v \in Values, e \in ExpiresIn :
             Set(k, v, e, TRUE, "none") =>
                /\ Has(cache_table', k)
                /\ cache_table'[k] = [value |-> StoredText(v), expires_at |-> now + e]]_vars
    /\ [][last'.op = "set" /\ last' # last /\ cache_table' # cache_table =>
             latest'[last'.key].permanent]_vars

\* C27 (witness): a set with permanent=False has gone through while another
\* caller holds the internal lock, and the row of an earlier permanent set
\* is still there
C27_Witness ==
    /\ last.op = "set"
    /\ ~latest["flag"].permanent
    /\ cacheLock
    /\ Has(cache_table, "flag")
    /\ Has(memory_cache, "flag")
    /\ memory_cache["flag"].expires_at # cache_table["flag"].expires_at

\* coroutine c holds the mutex of balance_update_<growid>
HoldsUpdate(c) ==
    /\ holds[c] = KeyOf("update_balance")
    /\ locks[KeyOf("update_balance")] = cref[c]
    /\ Obj(KeyOf("update_balance"), cref[c]).locked

\* C28: update_balance follows the lock-store-cache protocol.  The cache key
\* balance_<growid> is written, and trx_history_<growid> is invalidated,
\* only by a call whose commit is in the store and which holds
\* balance_update_<growid> before and after the step; the release comes
\* after both.  When the call fails, the step that fails leaves the store and
\* both cache keys as they were, nothing of the call is left uncommitted, the
\* call touches no cache key afterwards, and it ends with the lock released.
C28_LockStoreCache ==
    /\ [][\A c \in Coros :
            (pc[c] \in {"ub_committed", "ub_cached"} /\ pc'[c] # pc[c])
            => /\ store.balance = work[c].new
               /\ HoldsUpdate(c)
               /\ HoldsUpdate(c)']_vars
    /\ [][bcache' # bcache =>
            \E c \in Coros : pc[c] = "ub_committed" /\ pc'[c] = "ub_cached"]_vars
    /\ [][(hist /\ ~hist') =>
            \E c \in Coros : pc[c] = "ub_cached" /\ pc'[c] = "ub_finally"]_vars
    /\ [][\A c \in Coros :
            (pc[c] = "ub_finally" /\ pc'[c] = "done")
            => /\ HoldsUpdate(c)
               /\ Unheld(KeyOf("update_balance"))'
               /\ holds'[c] = NoKey]_vars
    /\ [][\A c \in Coros :
            (out[c] # "raised" /\ out'[c] = "raised")
            => /\ store' = store
               /\ bcache' = bcache
               /\ hist' = hist
               /\ work'[c] = NoWork]_vars
    /\ [](\A c \in Coros :
            out[c] = "raised" => pc[c] \in {"ub_finally", "done"} /\ work[c] = NoWork)
    /\ [](\A c \in Coros :
            (pc[c] = "done" /\ cop[c] = "update_balance") => holds[c] = NoKey)

\* one call has committed, cached and released; a later one had its UPDATE
\* rolled back and has released too
C28_Witness ==
    \E c, d \in Coros :
       /\ c # d
       /\ pc[c] = "done" /\ out[c] = "new_balance"
       /\ pc[d] = "done" /\ out[d] = "raised" /\ conn[d] = "closed"
       /\ bcache = store.balance
       /\ applied # 0
       /\ Unheld(KeyOf("update_balance"))
\* C29: release_lock(k) by a coroutine that does not hold k never unlocks
\* the mutex another coroutine holds: after any sequence of acquire_lock and
\* release_lock calls, releases by non-holders included, the Lock of a held
\* key is locked and no two coroutines hold the same key.
C29_ExclusiveDespiteStray ==
    /\ \A c \in Coros :
          holds[c] # NoKey => Obj(holds[c], locks[holds[c]]).locked
    /\ \A c, d \in Coros : holds[c] # NoKey /\ holds[c] = holds[d] => c = d
\* C30: no lost update.  Whatever the interleaving of the concurrent
\* update_balance calls on one growid, the stored balance is the initial
\* balance plus the sum of the deltas of the calls that committed, and a
\* call that has read the balance and not yet committed has read the
\* balance the store still holds.
C30_NoLostUpdate ==
    /\ store.balance = InitialBalance + applied
    /\ \A c \in Coros :
          pc[c] = "ub_updated" => work[c].new = store.balance + work[c].delta

\* one call has succeeded, a second one has committed after it, and a third
\* one is queued behind the second
C30_Witness ==
    \E c, d, e \in Coros :
       /\ c # d /\ d # e /\ c # e
       /\ pc[c] = "done" /\ out[c] = "new_balance"
       /\ pc[d] = "ub_committed"
       /\ pc[e] = "waiting" /\ ckey[e] = KeyOf("update_balance")
       /\ applied = 2
       /\ store.balance = InitialBalance + 2
\* the three effects of a purchase
Sold == stock = "sold"
Debited == store.balance < InitialBalance
Recorded == trxlog > 0

CommitInFlight == \E c \in Coros : pc[c] = "ub_committed"

\* C33: balance cache coherence.  Outside the moment between a commit and
\* its own cache write, the cache key balance_<g> is absent or holds the
\* committed balance, and a get_balance that returns a balance returns the
\* committed one; whoever writes the key writes the balance the store holds
\* at that time, so a reader that started before a commit cannot put the
\* older balance back.
C33_CacheCoherent ==
    /\ [](~CommitInFlight => bcache \in {NoBalance, store.balance})
    /\ [][\A c \in Coros :
            (/\ pc[c] # "done" /\ pc'[c] = "done"
             /\ cop'[c] = "get_balance"
             /\ gbret'[c] # NoBalance
             /\ ~CommitInFlight)
            => gbret'[c] = store.balance]_vars
    /\ [][(bcache' # bcache /\ bcache' # NoBalance) => bcache' = store'.balance]_vars

\* after an update that committed and returned, one reader has been answered
\* from the cache and another from the store, both with the new balance
C33_Witness ==
    /\ applied # 0
    /\ pc["c1"] = "done" /\ out["c1"] = "new_balance"
    /\ pc["c2"] = "done" /\ out["c2"] = "cached" /\ gbret["c2"] = store.balance
    /\ pc["c3"] = "done" /\ out["c3"] = "balance" /\ gbret["c3"] = store.balance
\* C34: stored balances never go negative.  Neither the store nor an UPDATE
\* waiting for its commit holds a negative amount; an UPDATE is executed
\* only for a delta the current amount covers; and a debit that exceeds the
\* current amount makes update_balance raise with the stored balance, the
\* transaction log and the cache unchanged.
C34_NeverNegative ==
    /\ [](store.balance >= 0)
    /\ [](\A c \in Coros : work[c] # NoWork => work[c].new >= 0)
    /\ [][\A c \in Coros :
            (work[c] = NoWork /\ work'[c] # NoWork)
            => work'[c].new = store.balance + work'[c].delta]_vars
    /\ [][\A c \in Coros, delta \in Deltas :
            (/\ UbRead(c, delta, TRUE)
             /\ store.exists
             /\ delta < 0 /\ -delta > store.balance)
            => /\ out'[c] = "raised"
               /\ pc'[c] = "ub_finally"
               /\ work'[c] = NoWork
               /\ UNCHANGED <<store, trxlog, bcache, hist>>]_vars

\* a debit of 2 on a balance of 1 has been refused after an earlier credit
\* and debit went through
C34_Witness ==
    \E c \in Coros :
       /\ pc[c] = "ub_finally" /\ out[c] = "raised" /\ conn[c] = "open"
       /\ store.exists
       /\ store.balance = 0
       /\ trxlog = 2
\* C35: no self-deadlock.  No coroutine asks for, or waits for, a mutex it
\* already holds.
C35_NoSelfDeadlock ==
    \A c \in Coros :
        pc[c] \in {"calling", "waiting"} => holds[c] # ckey[c]

\* C36: pruning keeps exclusivity. At most one coroutine is inside the
\* block guarded by the mute lock of a guild, whenever the cleanup ran.
C36_PruneKeepsExclusive ==
    \A c, d \in Coros :
        (pc[c] = "cs" /\ holds[c] = MuteKey /\ pc[d] = "cs" /\ holds[d] = MuteKey) => c = d

\* the coroutines inside an `async with self._lock` block of the cache
InCacheLock == {c \in Coros : pc[c] \in {"locked", "querying", "closing"}}

\* C37: the internal lock of the cache is a leaf lock. A coroutine inside
\* it never starts to wait for any lock; the lock is held exactly while one
\* operation is inside its block, so it is free again when the operation
\* ends; and whenever it is held its holder can take its next step, whatever
\* domain locks the holder and the callers waiting for it hold.
C37_LeafLock ==
    /\ [][\A c \in InCacheLock : pc'[c] \notin {"calling", "waiting", "at_lock"}]_vars
    /\ [](cacheLock <=> Cardinality(InCacheLock) = 1)
    /\ [](cacheLock =>
            ENABLED (\E c \in Coros : DurConnect(c, TRUE) \/ DurQuery(c) \/ DurClose(c)))

\* C37 (witness): a purchase that holds its lock is inside the internal
\* lock, a deposit that holds its lock stands at the internal lock, and a
\* second purchase waits for the lock of the first
C37_Witness ==
    \E c, d, e \in Coros :
        /\ holds[c] = "purchase_1_1" /\ c \in InCacheLock
        /\ holds[d] = "deposit_1" /\ pc[d] = "at_lock"
        /\ pc[e] = "waiting" /\ ckey[e] = "purchase_1_1"

\* C38: promotion never extends a lifetime. The memory entry a get leaves
\* after it missed the memory tier has the expires_at of the durable row it
\* read, and is valid at no time at which that row is expired.
C38_PromotionKeepsExpiry ==
    (last.op = "get" /\ ~last.hit /\ Has(memory_cache, last.key)) =>
       /\ last.row # NoRow
       /\ memory_cache[last.key].expires_at = last.row.expires_at
       /\ \A t \in 0..(MaxTime + 3) :
              IsValid(memory_cache[last.key], t) => RowValid(last.row, t)

\* C38 (witness): a dict written at time 0 for two units has been promoted
\* at time 1 and expires in memory at time 2, as its row does
C38_Witness ==
    /\ last.op = "get"
    /\ ~last.hit
    /\ now = 1
    /\ Has(memory_cache, last.key)
    /\ memory_cache[last.key] = [value |-> VDict, expires_at |-> 2]
    /\ last.row.expires_at = 2

\* C39: cooldown enforcement. Two answers (True, 0) to a user who is not
\* the admin are at least cooldown_time apart, the cooldown of the command
\* or, for a command that is not listed, the configured default.
C39_CooldownEnforced ==
    Len(grants) = 2 => grants[2] - grants[1] >= CooldownTime(cooldowns, Command)

\* the scope a cache key belongs to
ScopeOfKey(k) == IF k \in Users THEN "user" ELSE IF k \in Channels THEN "channel" ELSE "global"

====
